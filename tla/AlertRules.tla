----------------------------- MODULE AlertRules -----------------------------
(***************************************************************************)
(* The rules of the telemetry alerts (SettingsAlertsSection): a rule that  *)
(* holds for every polled node, and what a node overrides of it.  Every    *)
(* change is made on a reference copy, which the render of fetched rules   *)
(* replaces, and joins a chain of saves.                                   *)
(*                                                                         *)
(* One rule stands for all; its threshold is 1 or 2, and 0 where an        *)
(* override leaves it alone.  A node without an override has all three     *)
(* parts of it unset.                                                      *)
(***************************************************************************)
EXTENDS Integers, Sequences, FiniteSets

CONSTANTS Nodes,       \* nodes that can be polled
          MaxFailures, \* requests that fail
          MaxEdits     \* changes of a behaviour

VARIABLE ui

Flags == {"on", "off"}

Thresholds == {1, 2}

NoOverride == [alerting |-> "unset", enabled |-> "unset", threshold |-> 0]

\* DEFAULT_TELEMETRY_ALERT_RULES
DefaultRules == [rule |-> [enabled |-> "on", threshold |-> 1], overrides |-> [n \in Nodes |-> NoOverride]]

Init ==
  ui = [failures |-> 0, server |-> DefaultRules, rules |-> DefaultRules, ref |-> DefaultRules, chain |-> <<>>, stage |-> "idle",
        stale |-> FALSE, dialog |-> {}, tracked |-> Nodes, lists |-> Nodes, replies |-> {},
        catalog |-> Nodes, want |-> DefaultRules, reset |-> [n \in Nodes |-> FALSE], edits |-> 0]

Fail(u) == [u EXCEPT !.failures = @ + 1]

MayFail == ui.failures < MaxFailures

\* The person edits before a render has replaced the reference copy in the
\* middle of a chain of saves.
Edit == ui.edits < MaxEdits /\ ~ui.stale

Edited == [ui EXCEPT !.edits = @ + 1]

\* A render: rules are resolved anew, so the effect runs each time.
Render(u) == [u EXCEPT !.ref = u.rules, !.stale = u.chain # <<>>]

-----------------------------------------------------------------------------
(* Changes *)

\* persistRules: the save joins the chain.
PersistRules(u, next) ==
  [u EXCEPT !.ref = next,
            !.chain = Append(@, [next |-> next, previous |-> u.ref, overrides |-> u.ref.overrides # next.overrides]),
            !.stage = IF u.chain = <<>> THEN "patch" ELSE @]

\* patchRules: the change is made on the reference copy.
Current(u) == u.ref

PatchRules(u, Updater(_)) == PersistRules(u, Updater(Current(u)))

\* The nodes listed: those of the catalog, else those of the settings.
PolledNodes(u) == IF u.catalog # {} THEN u.catalog ELSE u.lists

\* overrideNode: the dialog is drawn for a node still listed.
OverrideNode == ui.dialog \cap PolledNodes(ui)

\* The checkbox and the threshold of the rule.
HandleRule ==
  \/ \E f \in Flags :
       /\ Edit /\ OverrideNode = {} /\ f # ui.rules.rule.enabled
       /\ ui' = [PatchRules(Edited, LAMBDA r : [r EXCEPT !.rule.enabled = f]) EXCEPT !.want.rule.enabled = f]
  \/ \E t \in Thresholds :
       /\ Edit /\ OverrideNode = {} /\ t # ui.rules.rule.threshold
       /\ ui' = [PatchRules(Edited, LAMBDA r : [r EXCEPT !.rule.threshold = t]) EXCEPT !.want.rule.threshold = t]

\* The checkbox of a node.
HandleAlerting ==
  \E n \in PolledNodes(ui), f \in Flags :
    /\ Edit /\ OverrideNode = {} /\ f # ui.rules.overrides[n].alerting
    /\ ui' = [PatchRules(Edited, LAMBDA r : [r EXCEPT !.overrides[n].alerting = f])
                EXCEPT !.want.overrides[n].alerting = f]

\* The dialog of a node opens and closes.
SetOverrideKey ==
  \/ \E n \in PolledNodes(ui) : Edit /\ OverrideNode = {} /\ ui' = Render([Edited EXCEPT !.dialog = {n}])
  \/ OverrideNode # {} /\ ui' = Render([ui EXCEPT !.dialog = {}])

\* resolved: what holds for a node.
Resolved(rules, n) ==
  [enabled |-> IF rules.overrides[n].enabled = "unset" THEN rules.rule.enabled ELSE rules.overrides[n].enabled,
   threshold |-> IF rules.overrides[n].threshold = 0 THEN rules.rule.threshold ELSE rules.overrides[n].threshold]

\* writeRule: only what differs from the rule is kept.
WriteRule(rules, n, enabled, threshold) ==
  [rules.overrides[n] EXCEPT !.enabled = IF enabled = rules.rule.enabled THEN "unset" ELSE enabled,
                             !.threshold = IF threshold = rules.rule.threshold THEN 0 ELSE threshold]

\* The dialog computes the override from the rules it was drawn with.
HandleOverride ==
  \E n \in OverrideNode, f \in Flags, t \in Thresholds :
    LET now == Resolved(ui.rules, n)
        next == WriteRule(ui.rules, n, f, t) IN
    /\ Edit /\ (f # now.enabled) # (t # now.threshold)
    /\ ui' = [PatchRules(Edited, LAMBDA r : [r EXCEPT !.overrides[n] = next])
                EXCEPT !.reset[n] = FALSE]

\* "Reset": the node goes back to the rule.
HandleReset ==
  \E n \in OverrideNode :
    /\ Edit
    /\ ui' = [PatchRules(Edited, LAMBDA r : [r EXCEPT !.overrides[n] = [NoOverride EXCEPT !.alerting = ui.rules.overrides[n].alerting]])
                EXCEPT !.reset[n] = TRUE]

-----------------------------------------------------------------------------
(* Saves *)

\* The server's merge of the overrides sent: an empty map clears them, any
\* other is merged node by node and part by part.
MergeOverrides(stored, sent) ==
  IF \A n \in Nodes : sent[n] = NoOverride THEN sent
  ELSE [n \in Nodes |-> [alerting |-> IF sent[n].alerting = "unset" THEN stored[n].alerting ELSE sent[n].alerting,
                         enabled |-> IF sent[n].enabled = "unset" THEN stored[n].enabled ELSE sent[n].enabled,
                         threshold |-> IF sent[n].threshold = 0 THEN stored[n].threshold ELSE sent[n].threshold]]

\* onSaveAppSettings: the rules, and the overrides if they changed.
SaveAnswered ==
  /\ ui.stage = "patch"
  /\ ui' = [ui EXCEPT !.server = [rule |-> Head(ui.chain).next.rule,
                                  overrides |-> IF Head(ui.chain).overrides THEN MergeOverrides(@.overrides, Head(ui.chain).next.overrides)
                                                ELSE @.overrides],
                      !.stage = "fetch"]

Advance(u) == [u EXCEPT !.chain = Tail(@), !.stage = IF Len(u.chain) = 1 THEN "idle" ELSE "patch"]

\* The effect on the lists of polled nodes: the earlier request is cancelled.
AskCatalog(u) == [u EXCEPT !.replies = {u.tracked}]

\* fetchAppSettings after the save: new rules and new lists are drawn.
FetchAnswered ==
  /\ ui.stage = "fetch"
  /\ ui' = AskCatalog(Render(Advance([ui EXCEPT !.rules = ui.server, !.lists = ui.tracked])))

\* A failed save goes back to the copy from before it, with a notice.
SaveFailed ==
  /\ ui.stage = "patch" /\ MayFail
  /\ ui' = Fail(Advance([ui EXCEPT !.ref = Head(ui.chain).previous]))

\* The catalog of the alerts came, or could not be had.
CatalogAnswered ==
  \E r \in ui.replies :
    \/ ui' = Render([ui EXCEPT !.replies = @ \ {r}, !.catalog = r])
    \/ MayFail /\ ui' = Render([Fail(ui) EXCEPT !.replies = @ \ {r}, !.catalog = {}])

\* Another device stops polling a node, which shows at the next fetch.
OtherDevice ==
  \E n \in Nodes :
    /\ ui.tracked = Nodes /\ ui.stage = "fetch"
    /\ ui' = [ui EXCEPT !.tracked = @ \ {n}]

Next ==
  \/ HandleRule \/ HandleAlerting \/ SetOverrideKey \/ HandleOverride \/ HandleReset
  \/ SaveAnswered \/ FetchAnswered \/ SaveFailed \/ CatalogAnswered \/ OtherDevice

-----------------------------------------------------------------------------
\* The state is well formed.
TypeOK ==
  /\ ui.failures \in 0..MaxFailures /\ ui.edits \in 0..MaxEdits /\ Len(ui.chain) <= MaxEdits
  /\ \A r \in {ui.server, ui.rules, ui.ref} :
       /\ r.rule.enabled \in Flags /\ r.rule.threshold \in Thresholds
       /\ \A n \in Nodes : r.overrides[n].alerting \in Flags \cup {"unset"} /\ r.overrides[n].threshold \in 0..2
  /\ ui.dialog \subseteq Nodes /\ Cardinality(ui.dialog) <= 1
  /\ ui.tracked \subseteq Nodes /\ ui.lists \subseteq Nodes /\ ui.catalog \subseteq Nodes
  /\ ui.stage \in {"idle", "patch", "fetch"} /\ (ui.stage = "idle") = (ui.chain = <<>>)

\* Quick changes are all kept: every setting changed on the page, several
\* in a row before the first is saved, is stored once the chain is empty
\* (rulesRef and saveChainRef in SettingsAlertsSection).
ChangesStored ==
  ui.chain = <<>> /\ ui.failures = 0 =>
    /\ ui.server.rule = ui.want.rule
    /\ \A n \in Nodes : ui.server.overrides[n].alerting = ui.want.overrides[n].alerting

\* The nodes listed are those polled: once the latest catalog has come, an
\* answer to an earlier request does not bring back a node that is no
\* longer in the settings (the cancelled flag of the effect).
NodesCurrent == ui.replies = {} /\ ui.failures = 0 /\ ui.chain = <<>> => PolledNodes(ui) \subseteq ui.lists

\* The next change starts from what is shown: once the chain is empty the
\* reference copy is what the page was drawn with, also when a save in the
\* middle of the chain failed (the catch of persistRules).
StartsFromShown == ui.chain = <<>> => ui.ref = ui.rules

\* A reset stays: with every save done, a node that was reset in its dialog
\* has no override of the rule left on the server (the overrides the Alerts
\* page sends replace those stored, merge_telemetry_alert_rules).
ResetStays ==
  ui.chain = <<>> /\ ui.failures = 0 =>
    \A n \in Nodes :
      ui.reset[n] => ui.server.overrides[n].enabled = "unset" /\ ui.server.overrides[n].threshold = 0
=============================================================================
