------------------------ MODULE IncomingMessagesProofs ------------------------
(***************************************************************************)
(* What holds of IncomingMessages for any number of peers, messages,       *)
(* packets and adverts, as long as no contact appears while a fallback for *)
(* it is under way (~Overlap).                                             *)
(*                                                                         *)
(* The argument has three parts.  Placing: once a contact is known, no     *)
(* fallback can choose the prefix any more, because the placeholder goes   *)
(* before the next one may start.  Claiming: whoever is about to store     *)
(* under the full key has claimed the prefix rows before, and by the first *)
(* part none comes after; so a row under the full key means that the peer  *)
(* has no prefix row left, and a claim never raises.  Scanning: a packet   *)
(* that is not linked is waited for by the advert that inserted the        *)
(* contact, by the scan that advert started, or by its own task.           *)
(***************************************************************************)
EXTENDS IncomingMessages, TLAPS

Storing == {"claim", "lock", "look", "create"}

RawTasks ==
    [pc : {"idle", "candidates", "scan", "next", "done"} \cup Storing,
     msg : Msgs \cup {Nobody}, seen : SUBSET Msgs, todo : SUBSET Msgs]

Types ==
    /\ contacts \subseteq Peers
    /\ placeholders \subseteq Peers
    /\ rows \subseteq [msg : Msgs, key : {Full, Prefix}]
    /\ packets \subseteq Msgs
    /\ linked \subseteq packets
    /\ dmLock \in Observers \cup Peers \cup {Nobody}
    /\ fallback \in [Msgs -> [pc : {"idle", "match", "claim", "place", "look", "create", "done"},
                              key : {Full, Prefix}]]
    /\ raw \in [Observers \cup Peers -> RawTasks]
    /\ add \in [Adds -> [pc : {"idle", "promote", "claim", "done"}, peer : Peers \cup {Nobody},
                         advert : BOOLEAN, inserted : BOOLEAN]]
    /\ \A a \in Adds : add[a].pc # "idle" => add[a].peer \in Peers

\* A task that is at work on a message has one; a scan's are its peer's.
Working ==
    /\ \A o \in Observers : raw[o].pc \in Storing \cup {"candidates"} => raw[o].msg \in packets
    /\ \A k \in Peers :
           /\ raw[k].pc # "candidates"
           /\ raw[k].pc \in Storing => raw[k].msg \in packets /\ From[raw[k].msg] = k
           /\ \A m \in raw[k].todo : m \in packets /\ From[m] = k

\* The store lock is held by the task that is inside a store.
Locked ==
    \A o \in Observers \cup Peers : (dmLock = o) <=> raw[o].pc \in {"look", "create"}

\* A contact comes from the one task that inserted it, and whatever needs the
\* contact comes after that.  The history scan starts once.
Inserts(a, k) == add[a].peer = k /\ add[a].inserted
Pending(a) == add[a].pc \in {"promote", "claim"}
Known ==
    /\ \A a \in Adds : add[a].pc # "idle" => add[a].peer \in contacts
    /\ \A a \in Adds : add[a].pc = "idle" => ~add[a].inserted
    /\ \A k \in contacts : \E a \in Adds : Inserts(a, k)
    /\ \A a, b \in Adds : \A k \in Peers : Inserts(a, k) /\ Inserts(b, k) => a = b
    /\ \A k \in Peers : raw[k].pc # "idle" => k \in contacts
    /\ \A a \in Adds : \A k \in Peers : Inserts(a, k) /\ Pending(a) => raw[k].pc = "idle"
    /\ \A o \in Observers : raw[o].pc \in Storing => From[raw[o].msg] \in contacts

\* Once the contact is known, no fallback is on its way to the prefix.
Falls(m, pcs) == fallback[m].pc \in pcs
Placed ==
    /\ \A m \in Msgs : From[m] \in contacts =>
           /\ ~Falls(m, {"place"})
           /\ Falls(m, {"look", "create"}) => fallback[m].key = Full
    /\ \A m \in Msgs : ~Falls(m, {"idle"}) /\ fallback[m].key = Full => From[m] \in contacts
    /\ \A m \in Msgs : Falls(m, {"match", "place"}) => fallback[m].key = Prefix
    /\ \A m \in Msgs : Falls(m, {"claim"}) => fallback[m].key = Full
    /\ \A k \in contacts \cap placeholders :
           \E a \in Adds : add[a].peer = k /\ add[a].pc = "promote"
    /\ \A m \in Msgs : Adding(From[m]) => ~Falls(m, {"match"})

\* Who stores under the full key has claimed the rows of the prefix.
Clean(k) == \A m \in Msgs : From[m] = k => Row(m, Prefix) \notin rows
Claiming ==
    /\ \A m \in Msgs : Row(m, Full) \in rows => From[m] \in contacts /\ Clean(From[m])
    /\ \A m \in Msgs : Falls(m, {"look", "create"}) /\ fallback[m].key = Full => Clean(From[m])
    /\ \A o \in Observers \cup Peers :
           raw[o].pc \in {"lock", "look", "create"} => Clean(From[raw[o].msg])
    /\ \A k \in contacts : Adding(k) \/ Clean(k)

\* What was handled is stored.
Stored ==
    /\ \A m \in linked : Row(m, Full) \in rows
    /\ \A m \in Msgs : Falls(m, {"done"}) => Row(m, Full) \in rows \/ Row(m, Prefix) \in rows

\* A packet that is not linked yet is waited for.
Scans(k) == raw[k].pc \in {"scan", "next"} \cup Storing
Handles(o, m) == raw[o].msg = m /\ raw[o].pc \in Storing
Waited(k, m) ==
    \/ \E a \in Adds : Inserts(a, k) /\ (Pending(a) \/ ~add[a].advert)
    \/ Scans(k)
    \/ \E o \in Observers : Handles(o, m) \/ (raw[o].msg = m /\ raw[o].pc = "candidates")
Scanning ==
    /\ \A k \in Peers : raw[k].pc \in {"idle", "scan", "done"} => raw[k].todo = {}
    /\ \A k \in Peers : \A m \in raw[k].seen :
           m \in linked \/ m \in raw[k].todo \/ Handles(k, m)
    /\ \A k \in contacts : \A m \in packets :
           From[m] = k /\ m \notin linked \cup raw[k].seen => Waited(k, m)

IncomingInv == Types /\ Working /\ Locked /\ Known /\ Placed /\ Claiming /\ Stored /\ Scanning

-----------------------------------------------------------------------------
(* A claim does not raise. *)

\* claim_prefix_messages never meets a row it would duplicate: a row under the
\* full key means there is none under the prefix.
LEMMA ClaimsNeverRaise ==
    ASSUME Types, Claiming, NEW k
    PROVE  ~ClaimRaises(k)
BY DEF ClaimRaises, Claiming, Clean, Types, Row, Full, Prefix

\* What a claim leaves: the same messages, none of the peer's under the prefix.
LEMMA ClaimedRows ==
    ASSUME Types, Claiming, NEW k, Claims(k)
    PROVE  /\ rows' \subseteq [msg : Msgs, key : {Full, Prefix}]
           /\ \A m \in Msgs : Row(m, Prefix) \in rows' <=> Row(m, Prefix) \in rows /\ From[m] # k
           /\ \A m \in Msgs : Row(m, Full) \in rows' <=>
                  Row(m, Full) \in rows \/ (From[m] = k /\ Row(m, Prefix) \in rows)
<1>1. rows' = Claimed(k)
  BY ClaimsNeverRaise DEF Claims
<1>2. rows \subseteq [msg : Msgs, key : {Full, Prefix}]
  BY DEF Types
<1>3. \A r \in rows : r.msg \in Msgs /\ r.key \in {Full, Prefix} /\ r = Row(r.msg, r.key)
  BY <1>2 DEF Row
<1>4. rows' \subseteq [msg : Msgs, key : {Full, Prefix}]
  BY <1>1, <1>2, <1>3 DEF Claimed, Row
<1>5. ASSUME NEW m \in Msgs
      PROVE  Row(m, Prefix) \in rows' <=> Row(m, Prefix) \in rows /\ From[m] # k
  <2>1. ASSUME Row(m, Prefix) \in rows'
        PROVE  Row(m, Prefix) \in rows /\ From[m] # k
    <3>1. PICK r \in rows : Row(m, Prefix) = IF From[r.msg] = k THEN Row(r.msg, Full) ELSE r
      BY <1>1, <2>1 DEF Claimed
    <3>2. From[r.msg] # k
      BY <3>1 DEF Row, Full, Prefix
    <3>3. QED BY <3>1, <3>2 DEF Row
  <2>2. ASSUME Row(m, Prefix) \in rows, From[m] # k
        PROVE  Row(m, Prefix) \in rows'
    BY <1>1, <2>2 DEF Claimed, Row
  <2>3. QED BY <2>1, <2>2
<1>6. ASSUME NEW m \in Msgs
      PROVE  Row(m, Full) \in rows' <=>
                  Row(m, Full) \in rows \/ (From[m] = k /\ Row(m, Prefix) \in rows)
  <2>1. ASSUME Row(m, Full) \in rows'
        PROVE  Row(m, Full) \in rows \/ (From[m] = k /\ Row(m, Prefix) \in rows)
    BY <1>1, <1>3, <2>1 DEF Claimed, Row, Full, Prefix
  <2>2. ASSUME Row(m, Full) \in rows
        PROVE  Row(m, Full) \in rows'
    BY <1>1, <2>2 DEF Claimed, Row
  <2>3. ASSUME From[m] = k, Row(m, Prefix) \in rows
        PROVE  Row(m, Full) \in rows'
    BY <1>1, <2>3 DEF Claimed, Row
  <2>4. QED BY <2>1, <2>2, <2>3
<1>7. QED BY <1>4, <1>5, <1>6

\* What a history scan's step does to the tasks: it reads on, or takes one
\* message of its batch in hand.
LEMMA NextTakes ==
    ASSUME Types, NEW k \in Peers, HistoryNext(k)
    PROVE  /\ \A o \in Observers \cup Peers : o # k => raw'[o] = raw[o]
           /\ raw'[k].seen = raw[k].seen
           /\ \/ raw'[k].pc = "scan" /\ raw[k].todo = {} /\ raw'[k].todo = {}
              \/ /\ raw'[k].pc = "claim"
                 /\ raw'[k].msg \in raw[k].todo
                 /\ raw'[k].todo = raw[k].todo \ {raw'[k].msg}
<1>1. CASE raw[k].todo = {} /\ RawTo(k, "scan")
  BY <1>1 DEF RawTo, Types, RawTasks
<1>2. ASSUME NEW m \in raw[k].todo,
             raw' = [raw EXCEPT ![k] = [raw[k] EXCEPT !.pc = "claim", !.msg = m, !.todo = @ \ {m}]]
      PROVE  /\ \A o \in Observers \cup Peers : o # k => raw'[o] = raw[o]
             /\ raw'[k].seen = raw[k].seen
             /\ raw'[k].pc = "claim" /\ raw'[k].msg = m /\ raw'[k].todo = raw[k].todo \ {m}
  BY <1>2 DEF Types, RawTasks
<1>3. QED BY <1>1, <1>2 DEF HistoryNext

\* The claim of a new contact goes through, and its advert then starts the scan.
LEMMA AddGoesOn ==
    ASSUME Types, Claiming, NEW a \in Adds, AddClaims(a)
    PROVE  /\ add' = [add EXCEPT ![a].pc = "done"]
           /\ raw' = IF add[a].inserted /\ add[a].advert
                     THEN [raw EXCEPT ![add[a].peer].pc = "scan"] ELSE raw
BY ClaimsNeverRaise DEF AddClaims, AddTo, AfterClaim, StartsHistory

\* A claim leaves its peer without prefix rows and gives no other peer one.
LEMMA ClaimCleans ==
    ASSUME Types, Claiming, NEW k, Claims(k)
    PROVE  /\ Clean(k)'
           /\ \A j : Clean(j) => Clean(j)'
BY ClaimedRows DEF Clean

\* Every step keeps the types.
LEMMA TypesNext ==
    ASSUME IncomingInv, ~Overlap, IncomingNext
    PROVE  Types'
<1> USE IncomingMessagesAssumption DEF IncomingInv
<1>1. ASSUME NEW m \in Msgs, FallbackResolves(m)
      PROVE  Types'
  BY <1>1 DEF FallbackResolves, FallbackTo, Types
<1>2. ASSUME NEW m \in Msgs, FallbackMatches(m)
      PROVE  Types'
  BY <1>2 DEF FallbackMatches, FallbackTo, Types
<1>3. ASSUME NEW m \in Msgs, FallbackClaims(m)
      PROVE  Types'
  <2>1. rows' \subseteq [msg : Msgs, key : {Full, Prefix}]
    BY <1>3, ClaimedRows DEF FallbackClaims
  <2>2. fallback' = [fallback EXCEPT ![m] = [pc |-> "look", key |-> Full]]
    BY <1>3, ClaimsNeverRaise DEF FallbackClaims, FallbackTo, AfterClaim
  <2>3. QED BY <1>3, <2>1, <2>2 DEF FallbackClaims, Types
<1>4. ASSUME NEW m \in Msgs, FallbackPlaces(m)
      PROVE  Types'
  BY <1>4 DEF FallbackPlaces, FallbackTo, Types
<1>5. ASSUME NEW m \in Msgs, FallbackLooks(m)
      PROVE  Types'
  BY <1>5 DEF FallbackLooks, FallbackTo, Types
<1>6. ASSUME NEW m \in Msgs, FallbackCreates(m)
      PROVE  Types'
  BY <1>6 DEF FallbackCreates, FallbackTo, Stores, Types, Row
<1>7. ASSUME NEW o \in Observers, NEW m \in Msgs, RawStores(o, m)
      PROVE  Types'
  <2>1. PICK task : task = [Idle EXCEPT !.pc = "candidates", !.msg = m]
    OBVIOUS
  <2>2. task = [pc |-> "candidates", msg |-> m, seen |-> {}, todo |-> {}]
    BY <2>1 DEF Idle
  <2>3. task \in RawTasks
    BY <2>2 DEF RawTasks
  <2>4. raw' = [raw EXCEPT ![o] = task]
    BY <1>7, <2>1 DEF RawStores
  <2>5. raw' \in [Observers \cup Peers -> RawTasks]
    BY <2>3, <2>4 DEF Types
  <2>6. QED BY <1>7, <2>5 DEF RawStores, Types
<1>8. ASSUME NEW k \in Peers, HistoryReads(k)
      PROVE  Types'
  <2>1. DEFINE batch == {m \in packets \ (linked \cup raw[k].seen) : From[m] = k}
               task  == [raw[k] EXCEPT !.pc = IF batch = {} THEN "done" ELSE "next",
                                       !.seen = @ \cup batch, !.todo = batch]
  <2>2. raw' = [raw EXCEPT ![k] = task]
    BY <1>8 DEF HistoryReads
  <2>3. task \in RawTasks
    <3>1. raw[k] \in RawTasks /\ batch \in SUBSET Msgs
      BY DEF Types
    <3>2. QED BY <3>1 DEF RawTasks
  <2>4. QED BY <1>8, <2>2, <2>3 DEF HistoryReads, Types
<1>9. ASSUME NEW k \in Peers, HistoryNext(k)
      PROVE  Types'
  <2>1. CASE raw[k].todo = {} /\ RawTo(k, "scan")
    BY <1>9, <2>1 DEF HistoryNext, RawTo, Types, RawTasks
  <2>2. ASSUME NEW m \in raw[k].todo,
               raw' = [raw EXCEPT ![k] =
                          [raw[k] EXCEPT !.pc = "claim", !.msg = m, !.todo = @ \ {m}]]
        PROVE  Types'
    <3>1. [raw[k] EXCEPT !.pc = "claim", !.msg = m, !.todo = @ \ {m}] \in RawTasks
      <4>1. raw[k] \in RawTasks
        BY DEF Types
      <4>2. m \in Msgs
        BY <4>1 DEF RawTasks
      <4>3. raw[k].todo \ {m} \in SUBSET Msgs
        BY <4>1 DEF RawTasks
      <4>4. QED BY <4>1, <4>2, <4>3 DEF RawTasks, Storing
    <3>2. QED BY <1>9, <2>2, <3>1 DEF HistoryNext, Types
  <2>3. QED BY <1>9, <2>1, <2>2 DEF HistoryNext
<1>10. ASSUME NEW o \in Observers \cup Peers, RawCandidates(o)
      PROVE  Types'
  BY <1>10 DEF RawCandidates, RawTo, Types, RawTasks, Storing, Full, Prefix
<1>11. ASSUME NEW o \in Observers \cup Peers, RawClaims(o)
      PROVE  Types'
  <2>1. rows' \subseteq [msg : Msgs, key : {Full, Prefix}]
    BY <1>11, ClaimedRows DEF RawClaims
  <2>2. raw' = [raw EXCEPT ![o].pc = "lock"]
    BY <1>11, ClaimsNeverRaise DEF RawClaims, RawTo, AfterClaim
  <2>3. raw' \in [Observers \cup Peers -> RawTasks]
    BY <2>2, SMTT(30) DEF Types, RawTasks, Storing
  <2>4. QED BY <1>11, <2>1, <2>3 DEF RawClaims, Types
<1>12. ASSUME NEW o \in Observers \cup Peers, RawLocks(o)
      PROVE  Types'
  BY <1>12, SMTT(30) DEF RawLocks, RawTo, Types, RawTasks, Working, Storing
<1>13. ASSUME NEW o \in Observers \cup Peers, RawLooks(o)
      PROVE  Types'
  <2>1. \E pc \in {"next", "done", "create"} : raw' = [raw EXCEPT ![o].pc = pc]
    BY <1>13 DEF RawLooks, RawEnds, RawTo
  <2>3. raw' \in [Observers \cup Peers -> RawTasks]
    BY <2>1 DEF Types, RawTasks, Storing
  <2>2. QED BY <1>13, <2>3 DEF RawLooks, RawEnds, Types
<1>14. ASSUME NEW o \in Observers \cup Peers, RawCreates(o)
      PROVE  Types'
  <2>1. raw' \in [Observers \cup Peers -> RawTasks]
    BY <1>14 DEF RawCreates, RawEnds, RawTo, Types, RawTasks
  <2>2. raw[o].msg \in packets
    BY <1>14 DEF RawCreates, Working, Storing
  <2>3. QED BY <1>14, <2>1, <2>2 DEF RawCreates, RawEnds, Stores, Row, Types
<1>15. ASSUME NEW a \in Adds, NEW k \in Peers, NEW advert \in BOOLEAN, AddUpserts(a, k, advert)
      PROVE  Types'
  BY <1>15 DEF AddUpserts, Types
<1>16. ASSUME NEW a \in Adds, AddPromotes(a)
      PROVE  Types'
  BY <1>16 DEF AddPromotes, AddTo, Types
<1>17. ASSUME NEW a \in Adds, AddClaims(a)
      PROVE  Types'
  <2>1. rows' \subseteq [msg : Msgs, key : {Full, Prefix}]
    BY <1>17, ClaimedRows DEF AddClaims
  <2>2. raw' \in [Observers \cup Peers -> RawTasks]
    BY <1>17, SMTT(30) DEF AddClaims, StartsHistory, Types, RawTasks
  <2>3. add' = [add EXCEPT ![a].pc = "done"]
    BY <1>17, ClaimsNeverRaise DEF AddClaims, AddTo, AfterClaim
  <2>4. QED BY <1>17, <2>1, <2>2, <2>3 DEF AddClaims, Types
<1>18. QED
  BY <1>1, <1>2, <1>3, <1>4, <1>5, <1>6, <1>7, <1>8, <1>9, <1>10, <1>11, <1>12, <1>13,
     <1>14, <1>15, <1>16, <1>17 DEF IncomingNext

\* Every step keeps the tasks at work on a message of theirs.
LEMMA WorkingNext ==
    ASSUME IncomingInv, ~Overlap, IncomingNext
    PROVE  Working'
<1> USE IncomingMessagesAssumption DEF IncomingInv
<1>1. CASE UNCHANGED <<packets, raw>>
  BY <1>1 DEF Working
<1>2. ASSUME NEW o \in Observers, NEW m \in Msgs, RawStores(o, m)
      PROVE  Working'
  BY <1>2 DEF RawStores, Working
<1>3. ASSUME NEW k \in Peers, HistoryReads(k)
      PROVE  Working'
  BY <1>3 DEF HistoryReads, Working, Storing
<1>4. ASSUME NEW k \in Peers, HistoryNext(k)
      PROVE  Working'
  <2>1. /\ \A o \in Observers \cup Peers : o # k => raw'[o] = raw[o]
        /\ raw'[k].seen = raw[k].seen
        /\ \/ raw'[k].pc = "scan" /\ raw[k].todo = {} /\ raw'[k].todo = {}
           \/ /\ raw'[k].pc = "claim"
              /\ raw'[k].msg \in raw[k].todo
              /\ raw'[k].todo = raw[k].todo \ {raw'[k].msg}
    BY <1>4, NextTakes
  <2>2. raw[k].pc = "next" /\ UNCHANGED <<contacts, packets, linked, dmLock, add>>
    BY <1>4 DEF HistoryNext
  <2>3. QED BY <2>1, <2>2 DEF Working, Storing
<1>5. ASSUME NEW o \in Observers \cup Peers, RawCandidates(o)
      PROVE  Working'
  BY <1>5 DEF RawCandidates, RawTo, Working
<1>6. ASSUME NEW o \in Observers \cup Peers, RawClaims(o)
      PROVE  Working'
  BY <1>6, ClaimsNeverRaise DEF RawClaims, RawTo, AfterClaim, Types, RawTasks, Working
<1>7. ASSUME NEW o \in Observers \cup Peers, RawLocks(o)
      PROVE  Working'
  BY <1>7 DEF RawLocks, RawTo, Types, RawTasks, Working
<1>8. ASSUME NEW o \in Observers \cup Peers, RawLooks(o)
      PROVE  Working'
  BY <1>8, SMTT(30) DEF RawLooks, RawEnds, RawTo, Types, RawTasks, Working, Storing
<1>9. ASSUME NEW o \in Observers \cup Peers, RawCreates(o)
      PROVE  Working'
  BY <1>9 DEF RawCreates, RawEnds, RawTo, Types, RawTasks, Working
<1>10. ASSUME NEW a \in Adds, AddClaims(a)
      PROVE  Working'
  <2>1. /\ add' = [add EXCEPT ![a].pc = "done"]
        /\ raw' = IF add[a].inserted /\ add[a].advert
                  THEN [raw EXCEPT ![add[a].peer].pc = "scan"] ELSE raw
    BY <1>10, AddGoesOn
  <2>2. /\ add[a].pc = "claim" /\ add[a].peer \in Peers
        /\ UNCHANGED <<contacts, placeholders, packets, linked, dmLock, fallback>>
    BY <1>10 DEF AddClaims, Types
  <2>3. QED BY <2>1, <2>2 DEF Working, Storing
<1>11. QED
  BY <1>1, <1>2, <1>3, <1>4, <1>5, <1>6, <1>7, <1>8, <1>9, <1>10 DEF IncomingNext,
     FallbackResolves, FallbackMatches, FallbackClaims, FallbackPlaces, FallbackLooks,
     FallbackCreates, AddUpserts, AddPromotes

\* Every step keeps the store lock with the task inside a store.
LEMMA LockedNext ==
    ASSUME IncomingInv, ~Overlap, IncomingNext
    PROVE  Locked'
<1> USE IncomingMessagesAssumption DEF IncomingInv
<1>1. CASE UNCHANGED <<dmLock, raw>>
  BY <1>1 DEF Locked
<1>2. ASSUME NEW o \in Observers, NEW m \in Msgs, RawStores(o, m)
      PROVE  Locked'
  BY <1>2 DEF RawStores, Locked
<1>3. ASSUME NEW k \in Peers, HistoryReads(k)
      PROVE  Locked'
  BY <1>3 DEF HistoryReads, Locked
<1>4. ASSUME NEW k \in Peers, HistoryNext(k)
      PROVE  Locked'
  <2>1. /\ \A o \in Observers \cup Peers : o # k => raw'[o] = raw[o]
        /\ raw'[k].seen = raw[k].seen
        /\ \/ raw'[k].pc = "scan" /\ raw[k].todo = {} /\ raw'[k].todo = {}
           \/ /\ raw'[k].pc = "claim"
              /\ raw'[k].msg \in raw[k].todo
              /\ raw'[k].todo = raw[k].todo \ {raw'[k].msg}
    BY <1>4, NextTakes
  <2>2. raw[k].pc = "next" /\ UNCHANGED <<contacts, packets, linked, dmLock, add>>
    BY <1>4 DEF HistoryNext
  <2>3. QED BY <2>1, <2>2 DEF Locked
<1>5. ASSUME NEW o \in Observers \cup Peers, RawCandidates(o)
      PROVE  Locked'
  BY <1>5 DEF RawCandidates, RawTo, Locked
<1>6. ASSUME NEW o \in Observers \cup Peers, RawClaims(o)
      PROVE  Locked'
  BY <1>6, ClaimsNeverRaise DEF RawClaims, RawTo, AfterClaim, Locked
<1>7. ASSUME NEW o \in Observers \cup Peers, RawLocks(o)
      PROVE  Locked'
  BY <1>7 DEF RawLocks, RawTo, Types, Locked
<1>8. ASSUME NEW o \in Observers \cup Peers, RawLooks(o)
      PROVE  Locked'
  BY <1>8, SMTT(30) DEF RawLooks, RawEnds, RawTo, Types, RawTasks, Locked
<1>9. ASSUME NEW o \in Observers \cup Peers, RawCreates(o)
      PROVE  Locked'
  BY <1>9 DEF RawCreates, RawEnds, RawTo, Types, Locked
<1>10. ASSUME NEW a \in Adds, AddClaims(a)
      PROVE  Locked'
  <2>1. /\ add' = [add EXCEPT ![a].pc = "done"]
        /\ raw' = IF add[a].inserted /\ add[a].advert
                  THEN [raw EXCEPT ![add[a].peer].pc = "scan"] ELSE raw
    BY <1>10, AddGoesOn
  <2>2. /\ add[a].pc = "claim" /\ add[a].peer \in Peers
        /\ UNCHANGED <<contacts, placeholders, packets, linked, dmLock, fallback>>
    BY <1>10 DEF AddClaims, Types
  <2>3. add[a].inserted => raw[add[a].peer].pc = "idle"
    BY <2>2 DEF Known, Inserts, Pending
  <2>4. QED BY <2>1, <2>2, <2>3 DEF Types, RawTasks, Locked
<1>11. QED
  BY <1>1, <1>2, <1>3, <1>4, <1>5, <1>6, <1>7, <1>8, <1>9, <1>10 DEF IncomingNext,
     FallbackResolves, FallbackMatches, FallbackClaims, FallbackPlaces, FallbackLooks,
     FallbackCreates, AddUpserts, AddPromotes

\* Every step keeps the contacts with the tasks that inserted them.
LEMMA KnownNext ==
    ASSUME IncomingInv, ~Overlap, IncomingNext
    PROVE  Known'
<1> USE IncomingMessagesAssumption DEF IncomingInv
<1>1. CASE UNCHANGED <<contacts, raw, add>>
  BY <1>1 DEF Known, Inserts, Pending
<1>2. ASSUME NEW o \in Observers, NEW m \in Msgs, RawStores(o, m)
      PROVE  Known'
  BY <1>2 DEF RawStores, Storing, Known, Inserts, Pending
<1>3. ASSUME NEW k \in Peers, HistoryReads(k)
      PROVE  Known'
  BY <1>3 DEF HistoryReads, Known, Inserts, Pending
<1>4. ASSUME NEW k \in Peers, HistoryNext(k)
      PROVE  Known'
  <2>1. /\ \A o \in Observers \cup Peers : o # k => raw'[o] = raw[o]
        /\ raw'[k].seen = raw[k].seen
        /\ \/ raw'[k].pc = "scan" /\ raw[k].todo = {} /\ raw'[k].todo = {}
           \/ /\ raw'[k].pc = "claim"
              /\ raw'[k].msg \in raw[k].todo
              /\ raw'[k].todo = raw[k].todo \ {raw'[k].msg}
    BY <1>4, NextTakes
  <2>2. raw[k].pc = "next" /\ UNCHANGED <<contacts, packets, linked, dmLock, add>>
    BY <1>4 DEF HistoryNext
  <2>3. QED BY <2>1, <2>2 DEF Known, Inserts, Pending
<1>5. ASSUME NEW o \in Observers \cup Peers, RawCandidates(o)
      PROVE  Known'
  BY <1>5 DEF RawCandidates, RawTo, Storing, Known, Inserts, Pending
<1>6. ASSUME NEW o \in Observers \cup Peers, RawClaims(o)
      PROVE  Known'
  BY <1>6, ClaimsNeverRaise DEF RawClaims, RawTo, Types, RawTasks, Known, Inserts, Pending
<1>7. ASSUME NEW o \in Observers \cup Peers, RawLocks(o)
      PROVE  Known'
  BY <1>7 DEF RawLocks, RawTo, Types, RawTasks, Known, Inserts, Pending
<1>8. ASSUME NEW o \in Observers \cup Peers, RawLooks(o)
      PROVE  Known'
  <2>1. PICK pc \in {"next", "done", "create"} : raw' = [raw EXCEPT ![o].pc = pc]
    BY <1>8 DEF RawLooks, RawEnds, RawTo
  <2>2. QED BY <1>8, <2>1 DEF RawLooks, Types, RawTasks, Known, Inserts, Pending
<1>9. ASSUME NEW o \in Observers \cup Peers, RawCreates(o)
      PROVE  Known'
  BY <1>9 DEF RawCreates, RawEnds, RawTo, Types, RawTasks, Known, Inserts, Pending
<1>10. ASSUME NEW a \in Adds, NEW k \in Peers, NEW advert \in BOOLEAN, AddUpserts(a, k, advert)
      PROVE  Known'
  <2>1. /\ add'[a].pc = "promote" /\ add'[a].peer = k /\ (add'[a].inserted <=> k \notin contacts)
        /\ \A b \in Adds : b # a => add'[b] = add[b]
        /\ contacts' = contacts \cup {k}
        /\ add[a].pc = "idle" /\ raw' = raw
    BY <1>10 DEF AddUpserts, Types
  <2>2. \A j \in contacts' : \E b \in Adds : Inserts(b, j)'
    BY <2>1 DEF Known, Inserts
  <2>3. \A b, c \in Adds : \A j \in Peers : Inserts(b, j)' /\ Inserts(c, j)' => b = c
    BY <2>1 DEF Known, Inserts
  <2>4. QED BY <2>1, <2>2, <2>3 DEF Known, Inserts, Pending
<1>11. ASSUME NEW a \in Adds, AddPromotes(a)
      PROVE  Known'
  BY <1>11 DEF AddPromotes, AddTo, Known, Inserts, Pending
<1>12. ASSUME NEW a \in Adds, AddClaims(a)
      PROVE  Known'
  <2>1. /\ add' = [add EXCEPT ![a].pc = "done"]
        /\ raw' = IF add[a].inserted /\ add[a].advert
                  THEN [raw EXCEPT ![add[a].peer].pc = "scan"] ELSE raw
    BY <1>12, AddGoesOn
  <2>2. /\ add[a].pc = "claim" /\ add[a].peer \in Peers
        /\ UNCHANGED <<contacts, placeholders, packets, linked, dmLock, fallback>>
    BY <1>12 DEF AddClaims, Types
  <2>3. add[a].inserted => raw[add[a].peer].pc = "idle"
    BY <2>2 DEF Known, Inserts, Pending
  <2>4. /\ add'[a].pc = "done" /\ add'[a].peer = add[a].peer
        /\ add'[a].inserted <=> add[a].inserted
        /\ \A b \in Adds : b # a => add'[b] = add[b]
    BY <2>1 DEF Types
  <2>5. add[a].peer \in contacts
    BY <2>2 DEF Known
  <2>6. \A k \in Peers : raw'[k].pc # "idle" => k \in contacts
    BY <2>1, <2>2, <2>5 DEF Known, Types, RawTasks
  <2>7. \A o \in Observers : raw'[o].pc \in Storing => raw'[o] = raw[o]
    BY <2>1, <2>2 DEF Types, RawTasks, Storing
  <2>8. \A b \in Adds : \A k \in Peers : Inserts(b, k)' /\ Pending(b)' => raw'[k].pc = "idle"
    <3>1. SUFFICES ASSUME NEW b \in Adds, NEW k \in Peers, Inserts(b, k)', Pending(b)'
                   PROVE  raw'[k].pc = "idle"
      OBVIOUS
    <3>2. b # a /\ Inserts(b, k) /\ Pending(b)
      BY <2>4, <3>1 DEF Inserts, Pending
    <3>3. raw[k].pc = "idle" /\ ~Inserts(a, k)
      BY <3>2 DEF Known
    <3>4. QED BY <2>1, <2>2, <3>3 DEF Inserts, Types, RawTasks
  <2>9. QED BY <2>2, <2>4, <2>6, <2>7, <2>8 DEF Known, Inserts, Pending
<1>13. QED
  BY <1>1, <1>2, <1>3, <1>4, <1>5, <1>6, <1>7, <1>8, <1>9, <1>10, <1>11, <1>12 DEF
     IncomingNext, FallbackResolves, FallbackMatches, FallbackClaims, FallbackPlaces,
     FallbackLooks, FallbackCreates

\* No step sends a fallback to the prefix of a known contact.
LEMMA PlacedNext ==
    ASSUME IncomingInv, ~Overlap, IncomingNext
    PROVE  Placed'
<1> USE IncomingMessagesAssumption DEF IncomingInv
<1>1. CASE UNCHANGED <<contacts, placeholders, fallback, add>>
  BY <1>1 DEF Placed, Falls, Adding
<1>2. ASSUME NEW m \in Msgs, FallbackResolves(m)
      PROVE  Placed'
  BY <1>2 DEF FallbackResolves, FallbackTo, Placed, Falls, Adding, Full, Prefix
<1>3. ASSUME NEW m \in Msgs, FallbackMatches(m)
      PROVE  Placed'
  <2>1. ~Adding(From[m])
    BY <1>3 DEF FallbackMatches, Placed, Falls
  <2>2. From[m] \in contacts => From[m] \notin placeholders
    BY <2>1 DEF Placed, Adding
  <2>3. /\ \A n \in Msgs : n # m => fallback'[n] = fallback[n]
        /\ \/ From[m] \in contacts /\ fallback'[m] = [pc |-> "claim", key |-> Full]
           \/ /\ From[m] \notin contacts
              /\ \E pc \in {"look", "place"} : fallback'[m] = [pc |-> pc, key |-> Prefix]
    BY <1>3, <2>2 DEF FallbackMatches, FallbackTo, Types
  <2>4. UNCHANGED <<contacts, placeholders, add>>
    BY <1>3 DEF FallbackMatches
  <2>5. QED BY <2>3, <2>4 DEF Placed, Falls, Adding, Full, Prefix
<1>4. ASSUME NEW m \in Msgs, FallbackClaims(m)
      PROVE  Placed'
  BY <1>4, ClaimsNeverRaise DEF FallbackClaims, FallbackTo, AfterClaim, Placed, Falls, Adding
<1>5. ASSUME NEW m \in Msgs, FallbackPlaces(m)
      PROVE  Placed'
  BY <1>5 DEF FallbackPlaces, FallbackTo, Placed, Falls, Adding
<1>6. ASSUME NEW m \in Msgs, FallbackLooks(m)
      PROVE  Placed'
  BY <1>6 DEF FallbackLooks, FallbackTo, Placed, Falls, Adding
<1>7. ASSUME NEW m \in Msgs, FallbackCreates(m)
      PROVE  Placed'
  BY <1>7 DEF FallbackCreates, FallbackTo, Placed, Falls, Adding
<1>8. ASSUME NEW a \in Adds, NEW k \in Peers, NEW advert \in BOOLEAN, AddUpserts(a, k, advert)
      PROVE  Placed'
  BY <1>8, SMTT(30) DEF AddUpserts, Types, Placed, Falls, Adding, FallingBack
<1>9. ASSUME NEW a \in Adds, AddPromotes(a)
      PROVE  Placed'
  BY <1>9 DEF AddPromotes, AddTo, Placed, Falls, Adding
<1>10. ASSUME NEW a \in Adds, AddClaims(a)
      PROVE  Placed'
  <2>1. /\ add' = [add EXCEPT ![a].pc = "done"]
        /\ raw' = IF add[a].inserted /\ add[a].advert
                  THEN [raw EXCEPT ![add[a].peer].pc = "scan"] ELSE raw
    BY <1>10, AddGoesOn
  <2>2. /\ add[a].pc = "claim" /\ add[a].peer \in Peers
        /\ UNCHANGED <<contacts, placeholders, packets, linked, dmLock, fallback>>
    BY <1>10 DEF AddClaims, Types
  <2>3. QED BY <2>1, <2>2 DEF Placed, Falls, Adding
<1>11. QED
  BY <1>1, <1>2, <1>3, <1>4, <1>5, <1>6, <1>7, <1>8, <1>9, <1>10 DEF IncomingNext,
     RawStores, HistoryReads, HistoryNext, RawCandidates, RawClaims, RawLocks, RawLooks,
     RawCreates

\* Every step that stores under the full key finds the prefix rows claimed.
LEMMA ClaimingNext ==
    ASSUME IncomingInv, ~Overlap, IncomingNext
    PROVE  Claiming'
<1> USE IncomingMessagesAssumption DEF IncomingInv
<1>1. ASSUME NEW m \in Msgs, FallbackResolves(m)
      PROVE  Claiming'
  <2>1. \A k : Clean(k)' <=> Clean(k)
    BY <1>1 DEF FallbackResolves, Clean
  <2>2. QED
    BY <1>1, <2>1 DEF FallbackResolves, FallbackTo, Falls, Claiming, Adding, Full, Prefix
<1>2. ASSUME NEW m \in Msgs, FallbackMatches(m)
      PROVE  Claiming'
  <2>1. \A k : Clean(k)' <=> Clean(k)
    BY <1>2 DEF FallbackMatches, Clean
  <2>2. QED
    BY <1>2, <2>1, SMTT(30) DEF FallbackMatches, FallbackTo, Types, Placed, Falls, Claiming,
       Adding, Prefix
<1>3. ASSUME NEW m \in Msgs, FallbackClaims(m)
      PROVE  Claiming'
  <2>1. Clean(From[m])' /\ \A j : Clean(j) => Clean(j)'
    BY <1>3, ClaimCleans DEF FallbackClaims
  <2>2. \A n \in Msgs : Row(n, Full) \in rows' => Row(n, Full) \in rows \/ From[n] = From[m]
    BY <1>3, ClaimedRows DEF FallbackClaims
  <2>3. /\ fallback' = [fallback EXCEPT ![m] = [pc |-> "look", key |-> Full]]
        /\ From[m] \in contacts
        /\ UNCHANGED <<contacts, raw, add>>
    BY <1>3, ClaimsNeverRaise DEF FallbackClaims, FallbackTo, AfterClaim, Placed, Falls
  <2>4. QED BY <2>1, <2>2, <2>3, SMTT(30) DEF Claiming, Falls, Adding
<1>4. ASSUME NEW m \in Msgs, FallbackPlaces(m)
      PROVE  Claiming'
  <2>1. \A k : Clean(k)' <=> Clean(k)
    BY <1>4 DEF FallbackPlaces, Clean
  <2>2. QED
    BY <1>4, <2>1, SMTT(30) DEF FallbackPlaces, FallbackTo, Placed, Falls, Claiming, Adding
<1>5. ASSUME NEW m \in Msgs, FallbackLooks(m)
      PROVE  Claiming'
  <2>1. \A k : Clean(k)' <=> Clean(k)
    BY <1>5 DEF FallbackLooks, Clean
  <2>2. QED
    BY <1>5, <2>1 DEF FallbackLooks, FallbackTo, Falls, Claiming, Adding
<1>6. ASSUME NEW m \in Msgs, FallbackCreates(m)
      PROVE  Claiming'
  <2>1. /\ fallback' = [fallback EXCEPT ![m] = [pc |-> "done", key |-> fallback[m].key]]
        /\ rows' = rows \cup {Row(m, fallback[m].key)}
        /\ fallback[m].pc = "create"
        /\ UNCHANGED <<contacts, raw, add>>
    BY <1>6 DEF FallbackCreates, FallbackTo, Stores
  <2>2. CASE fallback[m].key = Full
    <3>1. From[m] \in contacts /\ Clean(From[m])
      BY <2>1, <2>2 DEF Placed, Claiming, Falls
    <3>2. \A k : Clean(k)' <=> Clean(k)
      BY <2>1, <2>2 DEF Clean, Row, Full, Prefix
    <3>3. QED BY <2>1, <2>2, <3>1, <3>2 DEF Claiming, Falls, Adding, Row
  <2>3. CASE fallback[m].key = Prefix
    <3>1. From[m] \notin contacts
      BY <2>1, <2>3 DEF Placed, Falls, Full, Prefix
    <3>2. \A k \in Peers : k # From[m] /\ Clean(k) => Clean(k)'
      BY <2>1, <2>3 DEF Clean, Row
    <3>3. \A n \in Msgs : Row(n, Full) \in rows' => Row(n, Full) \in rows
      BY <2>1, <2>3 DEF Row, Full, Prefix
    <3>4. \A o \in Observers \cup Peers :
              raw[o].pc \in {"lock", "look", "create"} =>
                  raw[o].msg \in Msgs /\ From[raw[o].msg] \in contacts
      BY DEF Types, Working, Known, Storing
    <3>5. \A n \in Msgs : Falls(n, {"look", "create"})' /\ fallback'[n].key = Full =>
              n # m /\ From[n] \in contacts /\ Clean(From[n])
      BY <2>1, <2>3, SMTT(30) DEF Types, Placed, Claiming, Falls
    <3>6. contacts \subseteq Peers /\ From \in [Msgs -> Peers]
      BY DEF Types
    <3>7. QED BY <2>1, <3>1, <3>2, <3>3, <3>4, <3>5, <3>6 DEF Claiming, Adding
  <2>4. QED BY <2>2, <2>3 DEF Types
<1>7. ASSUME NEW o \in Observers, NEW m \in Msgs, RawStores(o, m)
      PROVE  Claiming'
  <2>1. \A k : Clean(k)' <=> Clean(k)
    BY <1>7 DEF RawStores, Clean
  <2>2. QED BY <1>7, <2>1 DEF RawStores, Claiming, Falls, Adding
<1>8. ASSUME NEW k \in Peers, HistoryReads(k)
      PROVE  Claiming'
  <2>1. \A j : Clean(j)' <=> Clean(j)
    BY <1>8 DEF HistoryReads, Clean
  <2>2. QED BY <1>8, <2>1 DEF HistoryReads, Claiming, Falls, Adding
<1>9. ASSUME NEW k \in Peers, HistoryNext(k)
      PROVE  Claiming'
  <2>1. /\ \A o \in Observers \cup Peers : o # k => raw'[o] = raw[o]
        /\ raw'[k].seen = raw[k].seen
        /\ \/ raw'[k].pc = "scan" /\ raw[k].todo = {} /\ raw'[k].todo = {}
           \/ /\ raw'[k].pc = "claim"
              /\ raw'[k].msg \in raw[k].todo
              /\ raw'[k].todo = raw[k].todo \ {raw'[k].msg}
    BY <1>9, NextTakes
  <2>2. raw[k].pc = "next" /\ UNCHANGED <<contacts, packets, linked, dmLock, add>>
    BY <1>9 DEF HistoryNext
  <2>3. (\A j : Clean(j)' <=> Clean(j)) /\ UNCHANGED <<rows, fallback>>
    BY <1>9 DEF HistoryNext, Clean
  <2>4. QED BY <2>1, <2>2, <2>3 DEF Claiming, Falls, Adding
<1>10. ASSUME NEW o \in Observers \cup Peers, RawCandidates(o)
      PROVE  Claiming'
  <2>1. \A k : Clean(k)' <=> Clean(k)
    BY <1>10 DEF RawCandidates, Clean
  <2>2. QED BY <1>10, <2>1 DEF RawCandidates, RawTo, Claiming, Falls, Adding
<1>11. ASSUME NEW o \in Observers \cup Peers, RawClaims(o)
      PROVE  Claiming'
  <2> PICK k : k = From[raw[o].msg]
    OBVIOUS
  <2>1. Clean(k)' /\ \A j : Clean(j) => Clean(j)'
    BY <1>11, ClaimCleans DEF RawClaims
  <2>2. \A n \in Msgs : Row(n, Full) \in rows' => Row(n, Full) \in rows \/ From[n] = k
    BY <1>11, ClaimedRows DEF RawClaims
  <2>3. k \in contacts
    BY <1>11 DEF RawClaims, Working, Known, Storing
  <2>4. raw' = [raw EXCEPT ![o].pc = "lock"] /\ UNCHANGED <<contacts, fallback, add>>
    BY <1>11, ClaimsNeverRaise DEF RawClaims, RawTo, AfterClaim
  <2>5. QED BY <2>1, <2>2, <2>3, <2>4 DEF Claiming, Falls, Adding
<1>12. ASSUME NEW o \in Observers \cup Peers, RawLocks(o)
      PROVE  Claiming'
  <2>1. \A k : Clean(k)' <=> Clean(k)
    BY <1>12 DEF RawLocks, Clean
  <2>2. QED BY <1>12, <2>1 DEF RawLocks, RawTo, Claiming, Falls, Adding
<1>13. ASSUME NEW o \in Observers \cup Peers, RawLooks(o)
      PROVE  Claiming'
  <2>1. (\A j : Clean(j)' <=> Clean(j)) /\ UNCHANGED <<contacts, rows, fallback, add>>
    BY <1>13 DEF RawLooks, Clean
  <2>2. PICK pc \in {"next", "done", "create"} : raw' = [raw EXCEPT ![o].pc = pc]
    BY <1>13 DEF RawLooks, RawEnds, RawTo
  <2>3. raw[o].pc = "look"
    BY <1>13 DEF RawLooks
  <2>4. QED BY <2>1, <2>2, <2>3 DEF Claiming, Falls, Adding
<1>14. ASSUME NEW o \in Observers \cup Peers, RawCreates(o)
      PROVE  Claiming'
  <2>1. PICK pc \in {"next", "done"} : raw' = [raw EXCEPT ![o].pc = pc]
    BY <1>14 DEF RawCreates, RawEnds, RawTo
  <2>2. /\ raw[o].pc = "create" /\ raw[o].msg \in Msgs
        /\ rows' = rows \cup {Row(raw[o].msg, Full)}
        /\ UNCHANGED <<contacts, fallback, add>>
    BY <1>14 DEF RawCreates, Stores, Working, Storing, Types
  <2>3. From[raw[o].msg] \in contacts /\ Clean(From[raw[o].msg])
    BY <2>2 DEF Working, Known, Storing, Claiming
  <2>4. \A k : Clean(k)' <=> Clean(k)
    BY <2>2 DEF Clean, Row, Full, Prefix
  <2>5. QED BY <2>1, <2>2, <2>3, <2>4 DEF Claiming, Falls, Adding, Row
<1>15. ASSUME NEW a \in Adds, NEW k \in Peers, NEW advert \in BOOLEAN, AddUpserts(a, k, advert)
      PROVE  Claiming'
  <2>1. \A j : Clean(j)' <=> Clean(j)
    BY <1>15 DEF AddUpserts, Clean
  <2>2. QED BY <1>15, <2>1 DEF AddUpserts, Types, Claiming, Falls, Adding
<1>16. ASSUME NEW a \in Adds, AddPromotes(a)
      PROVE  Claiming'
  <2>1. \A k : Clean(k)' <=> Clean(k)
    BY <1>16 DEF AddPromotes, Clean
  <2>2. QED BY <1>16, <2>1 DEF AddPromotes, AddTo, Claiming, Falls, Adding
<1>17. ASSUME NEW a \in Adds, AddClaims(a)
      PROVE  Claiming'
  <2> PICK k : k = add[a].peer
    OBVIOUS
  <2>1. Clean(k)' /\ \A j : Clean(j) => Clean(j)'
    BY <1>17, ClaimCleans DEF AddClaims
  <2>2. \A n \in Msgs : Row(n, Full) \in rows' => Row(n, Full) \in rows \/ From[n] = k
    BY <1>17, ClaimedRows DEF AddClaims
  <2>3. /\ add' = [add EXCEPT ![a].pc = "done"]
        /\ raw' = IF add[a].inserted /\ add[a].advert
                  THEN [raw EXCEPT ![add[a].peer].pc = "scan"] ELSE raw
    BY <1>17, AddGoesOn
  <2>4. /\ add[a].pc = "claim" /\ add[a].peer \in Peers
        /\ UNCHANGED <<contacts, placeholders, packets, linked, dmLock, fallback>>
    BY <1>17 DEF AddClaims, Types
  <2>5. add[a].peer \in contacts
    BY <2>4 DEF Known
  <2>6. \A o \in Observers \cup Peers :
            raw'[o].pc \in {"lock", "look", "create"} => raw'[o] = raw[o]
    BY <2>3, <2>4 DEF Types, RawTasks
  <2>7. \A j \in contacts : Adding(j)' \/ Clean(j)'
    BY <2>1, <2>3 DEF Types, Claiming, Adding
  <2>8. QED BY <2>1, <2>2, <2>4, <2>5, <2>6, <2>7 DEF Claiming, Falls
<1>18. QED
  BY <1>1, <1>2, <1>3, <1>4, <1>5, <1>6, <1>7, <1>8, <1>9, <1>10, <1>11, <1>12, <1>13,
     <1>14, <1>15, <1>16, <1>17 DEF IncomingNext

\* No step loses a row.
LEMMA StoredNext ==
    ASSUME IncomingInv, ~Overlap, IncomingNext
    PROVE  Stored'
<1> USE IncomingMessagesAssumption DEF IncomingInv
<1>1. CASE UNCHANGED <<rows, linked, fallback>>
  BY <1>1 DEF Falls, Stored
<1>2. ASSUME NEW m \in Msgs, FallbackResolves(m)
      PROVE  Stored'
  BY <1>2 DEF FallbackResolves, FallbackTo, Falls, Stored
<1>3. ASSUME NEW m \in Msgs, FallbackMatches(m)
      PROVE  Stored'
  BY <1>3 DEF FallbackMatches, FallbackTo, Types, Falls, Stored, Full, Prefix
<1>4. ASSUME NEW m \in Msgs, FallbackClaims(m)
      PROVE  Stored'
  <2>1. fallback' = [fallback EXCEPT ![m] = [pc |-> "look", key |-> Full]] /\ UNCHANGED linked
    BY <1>4, ClaimsNeverRaise DEF FallbackClaims, FallbackTo, AfterClaim
  <2>2. Claims(From[m])
    BY <1>4 DEF FallbackClaims
  <2>3. QED BY <2>1, <2>2, ClaimedRows, SMTT(30) DEF Types, Stored, Falls
<1>5. ASSUME NEW m \in Msgs, FallbackPlaces(m)
      PROVE  Stored'
  BY <1>5 DEF FallbackPlaces, FallbackTo, Falls, Stored
<1>6. ASSUME NEW m \in Msgs, FallbackLooks(m)
      PROVE  Stored'
  BY <1>6 DEF FallbackLooks, FallbackTo, Types, Falls, Stored, Full
<1>7. ASSUME NEW m \in Msgs, FallbackCreates(m)
      PROVE  Stored'
  BY <1>7 DEF FallbackCreates, FallbackTo, Stores, Types, Falls, Stored
<1>8. ASSUME NEW o \in Observers \cup Peers, RawClaims(o)
      PROVE  Stored'
  <2>1. Claims(From[raw[o].msg]) /\ UNCHANGED <<linked, fallback>>
    BY <1>8 DEF RawClaims
  <2>2. QED BY <2>1, ClaimedRows DEF Types, Stored, Falls
<1>9. ASSUME NEW o \in Observers \cup Peers, RawCreates(o)
      PROVE  Stored'
  BY <1>9 DEF RawCreates, Stores, Falls, Stored
<1>10. ASSUME NEW a \in Adds, AddClaims(a)
      PROVE  Stored'
  <2>1. Claims(add[a].peer) /\ UNCHANGED <<linked, fallback>>
    BY <1>10 DEF AddClaims
  <2>2. QED BY <2>1, ClaimedRows DEF Types, Stored, Falls
<1>11. QED
  BY <1>1, <1>2, <1>3, <1>4, <1>5, <1>6, <1>7, <1>8, <1>9, <1>10 DEF IncomingNext,
     RawStores, HistoryReads, HistoryNext, RawCandidates, RawLocks, RawLooks, AddUpserts,
     AddPromotes

\* Every step leaves a packet that is not linked with someone who waits for it.
LEMMA ScanningNext ==
    ASSUME IncomingInv, ~Overlap, IncomingNext
    PROVE  Scanning'
<1> USE IncomingMessagesAssumption DEF IncomingInv
<1>1. CASE UNCHANGED <<contacts, packets, linked, raw, add>>
  BY <1>1, SMTT(30) DEF Scanning, Scans, Handles, Waited, Inserts, Pending
<1>2. ASSUME NEW o \in Observers, NEW m \in Msgs, RawStores(o, m)
      PROVE  Scanning'
  <2>1. /\ \A p \in Observers \cup Peers : p # o => raw'[p] = raw[p]
        /\ raw'[o].pc = "candidates" /\ raw'[o].msg = m /\ raw[o].pc = "idle"
        /\ packets' = packets \cup {m}
        /\ UNCHANGED <<contacts, linked, add>>
    BY <1>2 DEF RawStores, Types
  <2>2. \A j \in Peers, n \in Msgs : Waited(j, n) => Waited(j, n)'
    BY <2>1 DEF Waited, Inserts, Pending, Scans, Handles, Storing
  <2>3. \A j \in Peers : Waited(j, m)'
    BY <2>1 DEF Waited
  <2>4. \A p \in Peers : raw'[p] = raw[p]
    BY <2>1
  <2>5. contacts \subseteq Peers /\ packets \subseteq Msgs
    BY DEF Types
  <2>6. QED BY <2>1, <2>2, <2>3, <2>4, <2>5 DEF Scanning, Handles
<1>3. ASSUME NEW k \in Peers, HistoryReads(k)
      PROVE  Scanning'
  <2>1. DEFINE batch == {m \in packets \ (linked \cup raw[k].seen) : From[m] = k}
  <2>2. /\ \A p \in Observers \cup Peers : p # k => raw'[p] = raw[p]
        /\ raw'[k].pc = IF batch = {} THEN "done" ELSE "next"
        /\ raw'[k].seen = raw[k].seen \cup batch /\ raw'[k].todo = batch
        /\ raw[k].pc = "scan"
        /\ UNCHANGED <<contacts, packets, linked, add>>
    BY <1>3 DEF HistoryReads, Types, RawTasks
  <2>3. \A j \in Peers, n \in packets : j # k /\ Waited(j, n) => Waited(j, n)'
    BY <2>2 DEF Waited, Inserts, Pending, Scans, Handles
  <2>4. \A n \in packets : From[n] = k => n \in linked' \cup raw'[k].seen
    BY <2>2
  <2>5. /\ \A j \in Peers : raw'[j].pc \in {"idle", "scan", "done"} => raw'[j].todo = {}
        /\ \A j \in Peers : \A n \in raw'[j].seen :
               n \in linked' \/ n \in raw'[j].todo \/ Handles(j, n)'
    BY <2>2, SMTT(30) DEF Scanning, Handles, Storing
  <2>6. contacts \subseteq Peers
    BY DEF Types
  <2>7. QED BY <2>2, <2>3, <2>4, <2>5, <2>6 DEF Scanning
<1>4. ASSUME NEW k \in Peers, HistoryNext(k)
      PROVE  Scanning'
  <2>1. /\ \A o \in Observers \cup Peers : o # k => raw'[o] = raw[o]
        /\ raw'[k].seen = raw[k].seen
        /\ \/ raw'[k].pc = "scan" /\ raw[k].todo = {} /\ raw'[k].todo = {}
           \/ /\ raw'[k].pc = "claim"
              /\ raw'[k].msg \in raw[k].todo
              /\ raw'[k].todo = raw[k].todo \ {raw'[k].msg}
    BY <1>4, NextTakes
  <2>2. raw[k].pc = "next" /\ UNCHANGED <<contacts, packets, linked, dmLock, add>>
    BY <1>4 DEF HistoryNext
  <2>3. \A j \in contacts, n \in packets :
            From[n] = j => (Waited(j, n) => Waited(j, n)' \/ n \in linked')
    BY <2>1, <2>2, SMTT(30) DEF Types, Waited, Inserts, Pending, Scans, Handles, Storing
  <2>4. /\ \A j \in Peers : raw'[j].pc \in {"idle", "scan", "done"} => raw'[j].todo = {}
        /\ \A j \in Peers : \A n \in raw'[j].seen :
               n \in linked' \/ n \in raw'[j].todo \/ Handles(j, n)'
    BY <2>1, <2>2, SMTT(30) DEF Scanning, Handles, Storing
  <2>5. contacts \subseteq Peers
    BY DEF Types
  <2>6. QED BY <2>1, <2>2, <2>3, <2>4, <2>5, SMTT(30) DEF Scanning
<1>5. ASSUME NEW o \in Observers \cup Peers, RawCandidates(o)
      PROVE  Scanning'
  <2>1. PICK pc \in {"claim", "done"} : raw' = [raw EXCEPT ![o].pc = pc]
    BY <1>5 DEF RawCandidates, RawTo
  <2>2. /\ \A p \in Observers \cup Peers : p # o => raw'[p] = raw[p]
        /\ raw'[o].pc = pc /\ raw'[o].msg = raw[o].msg
        /\ raw'[o].seen = raw[o].seen /\ raw'[o].todo = raw[o].todo
    BY <2>1 DEF Types, RawTasks
  <2>3. o \in Observers /\ (From[raw[o].msg] \in contacts => pc = "claim")
    BY <1>5, <2>1, <2>2 DEF RawCandidates, RawTo, Working
  <2>4. raw[o].pc = "candidates" /\ UNCHANGED <<contacts, packets, linked, add>>
    BY <1>5 DEF RawCandidates
  <2>5. \A j \in contacts, n \in packets :
            From[n] = j => (Waited(j, n) => Waited(j, n)' \/ n \in linked')
    BY <2>2, <2>3, <2>4, SMTT(30) DEF Types, Waited, Inserts, Pending, Scans, Handles, Storing
  <2>6. /\ \A j \in Peers : raw'[j].pc \in {"idle", "scan", "done"} => raw'[j].todo = {}
        /\ \A j \in Peers : \A n \in raw'[j].seen :
               n \in linked' \/ n \in raw'[j].todo \/ Handles(j, n)'
    BY <2>2, <2>3, <2>4 DEF Scanning, Handles, Storing
  <2>7. contacts \subseteq Peers
    BY DEF Types
  <2>8. QED BY <2>2, <2>3, <2>4, <2>5, <2>6, <2>7, SMTT(30) DEF Scanning
<1>6. ASSUME NEW o \in Observers \cup Peers, RawClaims(o)
      PROVE  Scanning'
  <2>1. PICK pc \in {"lock"} : raw' = [raw EXCEPT ![o].pc = pc]
    BY <1>6, ClaimsNeverRaise DEF RawClaims, RawTo, AfterClaim
  <2>2. /\ \A p \in Observers \cup Peers : p # o => raw'[p] = raw[p]
        /\ raw'[o].pc = pc /\ raw'[o].msg = raw[o].msg
        /\ raw'[o].seen = raw[o].seen /\ raw'[o].todo = raw[o].todo
    BY <2>1 DEF Types, RawTasks
  <2>3. raw[o].pc = "claim" /\ UNCHANGED <<contacts, packets, linked, add>>
    BY <1>6 DEF RawClaims
  <2>4. \A j \in contacts, n \in packets :
            From[n] = j => (Waited(j, n) => Waited(j, n)' \/ n \in linked')
    BY <2>2, <2>3, SMTT(30) DEF Types, Waited, Inserts, Pending, Scans, Handles, Storing
  <2>5. /\ \A j \in Peers : raw'[j].pc \in {"idle", "scan", "done"} => raw'[j].todo = {}
        /\ \A j \in Peers : \A n \in raw'[j].seen :
               n \in linked' \/ n \in raw'[j].todo \/ Handles(j, n)'
    <3>1. \A j \in Peers : raw'[j].seen = raw[j].seen /\ raw'[j].todo = raw[j].todo
      BY <2>2
    <3>2. \A j \in Peers : \A n : Handles(j, n) => Handles(j, n)'
      BY <2>2, <2>3 DEF Handles, Storing
    <3>3. \A j \in Peers : raw'[j].pc \in {"idle", "scan", "done"} => raw'[j].pc = raw[j].pc
      BY <2>2
    <3>4. QED BY <2>3, <3>1, <3>2, <3>3 DEF Scanning
  <2>6. contacts \subseteq Peers
    BY DEF Types
  <2>7. QED BY <2>2, <2>3, <2>4, <2>5, <2>6, SMTT(30) DEF Scanning
<1>7. ASSUME NEW o \in Observers \cup Peers, RawLocks(o)
      PROVE  Scanning'
  <2>1. PICK pc \in {"look"} : raw' = [raw EXCEPT ![o].pc = pc]
    BY <1>7 DEF RawLocks, RawTo
  <2>2. /\ \A p \in Observers \cup Peers : p # o => raw'[p] = raw[p]
        /\ raw'[o].pc = pc /\ raw'[o].msg = raw[o].msg
        /\ raw'[o].seen = raw[o].seen /\ raw'[o].todo = raw[o].todo
    BY <2>1 DEF Types, RawTasks
  <2>3. raw[o].pc = "lock" /\ UNCHANGED <<contacts, packets, linked, add>>
    BY <1>7 DEF RawLocks
  <2>4. \A j \in contacts, n \in packets :
            From[n] = j => (Waited(j, n) => Waited(j, n)' \/ n \in linked')
    BY <2>2, <2>3, SMTT(30) DEF Types, Waited, Inserts, Pending, Scans, Handles, Storing
  <2>5. /\ \A j \in Peers : raw'[j].pc \in {"idle", "scan", "done"} => raw'[j].todo = {}
        /\ \A j \in Peers : \A n \in raw'[j].seen :
               n \in linked' \/ n \in raw'[j].todo \/ Handles(j, n)'
    BY <2>2, <2>3, SMTT(30) DEF Scanning, Handles, Storing
  <2>6. contacts \subseteq Peers
    BY DEF Types
  <2>7. QED BY <2>2, <2>3, <2>4, <2>5, <2>6, SMTT(30) DEF Scanning
<1>8. ASSUME NEW o \in Observers \cup Peers, RawLooks(o)
      PROVE  Scanning'
  <2>1. PICK pc \in {"next", "done", "create"} :
            /\ raw' = [raw EXCEPT ![o].pc = pc]
            /\ pc = "create" \/ raw[o].msg \in linked
            /\ o \in Peers => pc # "done"
    BY <1>8 DEF RawLooks, RawEnds, RawTo
  <2>2. /\ \A p \in Observers \cup Peers : p # o => raw'[p] = raw[p]
        /\ raw'[o].pc = pc /\ raw'[o].msg = raw[o].msg
        /\ raw'[o].seen = raw[o].seen /\ raw'[o].todo = raw[o].todo
    BY <2>1 DEF Types, RawTasks
  <2>3. raw[o].pc = "look" /\ UNCHANGED <<contacts, packets, linked, add>>
    BY <1>8 DEF RawLooks
  <2>4. \A j \in contacts, n \in packets :
            From[n] = j => (Waited(j, n) => Waited(j, n)' \/ n \in linked')
    BY <2>1, <2>2, <2>3 DEF Types, Waited, Inserts, Pending, Scans, Handles, Storing
  <2>5. /\ \A j \in Peers : raw'[j].pc \in {"idle", "scan", "done"} => raw'[j].todo = {}
        /\ \A j \in Peers : \A n \in raw'[j].seen :
               n \in linked' \/ n \in raw'[j].todo \/ Handles(j, n)'
    BY <2>1, <2>2, <2>3 DEF Scanning, Handles, Storing
  <2>6. contacts \subseteq Peers
    BY DEF Types
  <2>7. QED BY <2>1, <2>2, <2>3, <2>4, <2>5, <2>6 DEF Scanning
<1>9. ASSUME NEW o \in Observers \cup Peers, RawCreates(o)
      PROVE  Scanning'
  <2>1. PICK pc \in {"next", "done"} :
            raw' = [raw EXCEPT ![o].pc = pc] /\ (pc = "next" <=> o \in Peers)
    BY <1>9 DEF RawCreates, RawEnds, RawTo
  <2>2. /\ \A p \in Observers \cup Peers : p # o => raw'[p] = raw[p]
        /\ raw'[o].pc = pc /\ raw'[o].msg = raw[o].msg
        /\ raw'[o].seen = raw[o].seen /\ raw'[o].todo = raw[o].todo
    BY <2>1 DEF Types, RawTasks
  <2>3. /\ raw[o].pc = "create" /\ linked' = linked \cup {raw[o].msg}
        /\ UNCHANGED <<contacts, packets, add>>
    BY <1>9 DEF RawCreates
  <2>4. \A j \in contacts, n \in packets :
            From[n] = j => (Waited(j, n) => Waited(j, n)' \/ n \in linked')
    BY <2>1, <2>2, <2>3 DEF Types, Waited, Inserts, Pending, Scans, Handles
  <2>5. /\ \A j \in Peers : raw'[j].pc \in {"idle", "scan", "done"} => raw'[j].todo = {}
        /\ \A j \in Peers : \A n \in raw'[j].seen :
               n \in linked' \/ n \in raw'[j].todo \/ Handles(j, n)'
    BY <2>1, <2>2, <2>3 DEF Scanning, Handles, Storing
  <2>6. contacts \subseteq Peers
    BY DEF Types
  <2>7. QED BY <2>1, <2>2, <2>3, <2>4, <2>5, <2>6 DEF Scanning
<1>10. ASSUME NEW a \in Adds, NEW k \in Peers, NEW advert \in BOOLEAN, AddUpserts(a, k, advert)
      PROVE  Scanning'
  <2>1. /\ add'[a].pc = "promote" /\ add'[a].peer = k /\ (add'[a].inserted <=> k \notin contacts)
        /\ \A b \in Adds : b # a => add'[b] = add[b]
        /\ contacts' = contacts \cup {k}
        /\ UNCHANGED <<packets, linked, raw>>
    BY <1>10 DEF AddUpserts, Types
  <2>2. ~add[a].inserted
    BY <1>10 DEF AddUpserts, Known
  <2>3. \A j \in Peers, m \in Msgs : Waited(j, m) => Waited(j, m)'
    BY <2>1, <2>2 DEF Waited, Inserts, Pending, Scans, Handles
  <2>4. k \notin contacts => \A m \in Msgs : Waited(k, m)'
    BY <2>1 DEF Waited, Inserts, Pending
  <2>5. contacts \subseteq Peers /\ packets \subseteq Msgs
    BY DEF Types
  <2>6. \A j \in contacts', n \in packets' :
            From[n] = j /\ n \notin linked' \cup raw'[j].seen => Waited(j, n)'
    <3>1. SUFFICES ASSUME NEW j \in contacts', NEW n \in packets',
                          From[n] = j, n \notin linked' \cup raw'[j].seen
                   PROVE  Waited(j, n)'
      OBVIOUS
    <3>2. n \in packets /\ n \in Msgs /\ n \notin linked \cup raw[j].seen
      BY <2>1, <2>5, <3>1
    <3>3. CASE j \in contacts
      <4>1. Waited(j, n)
        BY <3>1, <3>2, <3>3 DEF Scanning
      <4>2. QED BY <2>3, <2>5, <3>2, <3>3, <4>1
    <3>4. CASE j = k /\ k \notin contacts
      BY <2>4, <3>2, <3>4
    <3>5. QED BY <2>1, <3>3, <3>4
  <2>7. /\ \A j \in Peers : raw'[j].pc \in {"idle", "scan", "done"} => raw'[j].todo = {}
        /\ \A j \in Peers : \A n \in raw'[j].seen :
               n \in linked' \/ n \in raw'[j].todo \/ Handles(j, n)'
    BY <2>1 DEF Scanning, Handles
  <2>8. QED BY <2>6, <2>7 DEF Scanning
<1>11. ASSUME NEW a \in Adds, AddPromotes(a)
      PROVE  Scanning'
  <2>1. /\ add'[a].pc = "claim" /\ add[a].pc = "promote" /\ add'[a].peer = add[a].peer
        /\ (add'[a].inserted <=> add[a].inserted) /\ (add'[a].advert <=> add[a].advert)
        /\ \A b \in Adds : b # a => add'[b] = add[b]
        /\ UNCHANGED <<contacts, packets, linked, raw>>
    BY <1>11 DEF AddPromotes, AddTo, Types
  <2>2. \A j, m : Waited(j, m) => Waited(j, m)'
    BY <2>1 DEF Waited, Inserts, Pending, Scans, Handles
  <2>3. QED BY <2>1, <2>2, SMTT(30) DEF Scanning, Handles
<1>12. ASSUME NEW a \in Adds, AddClaims(a)
      PROVE  Scanning'
  <2>1. /\ add' = [add EXCEPT ![a].pc = "done"]
        /\ raw' = IF add[a].inserted /\ add[a].advert
                  THEN [raw EXCEPT ![add[a].peer].pc = "scan"] ELSE raw
    BY <1>12, AddGoesOn
  <2>2. /\ add[a].pc = "claim" /\ add[a].peer \in Peers
        /\ UNCHANGED <<contacts, placeholders, packets, linked, dmLock, fallback>>
    BY <1>12 DEF AddClaims, Types
  <2>3. add[a].inserted => raw[add[a].peer].pc = "idle"
    BY <2>2 DEF Known, Inserts, Pending
  <2>4. /\ add'[a].pc = "done" /\ add'[a].peer = add[a].peer
        /\ (add'[a].inserted <=> add[a].inserted) /\ (add'[a].advert <=> add[a].advert)
        /\ \A b \in Adds : b # a => add'[b] = add[b]
    BY <2>1 DEF Types
  <2>5. \A o \in Observers : raw'[o] = raw[o]
    BY <2>1, <2>2 DEF Types
  <2>6. \A k \in Peers :
            /\ raw'[k].msg = raw[k].msg /\ raw'[k].seen = raw[k].seen /\ raw'[k].todo = raw[k].todo
            /\ raw'[k].pc = raw[k].pc \/ (raw[k].pc = "idle" /\ raw'[k].pc = "scan")
            /\ k = add[a].peer /\ add[a].inserted /\ add[a].advert => raw'[k].pc = "scan"
    BY <2>1, <2>2, <2>3 DEF Types, RawTasks
  <2>7. \A j \in Peers, m \in Msgs : Waited(j, m) => Waited(j, m)'
    BY <2>4, <2>5, <2>6, SMTT(30) DEF Waited, Inserts, Pending, Scans, Handles
  <2>8. contacts \subseteq Peers /\ packets \subseteq Msgs
    BY DEF Types
  <2>9. QED BY <2>2, <2>6, <2>7, <2>8, SMTT(30) DEF Scanning, Handles, Storing
<1>13. QED
  BY <1>1, <1>2, <1>3, <1>4, <1>5, <1>6, <1>7, <1>8, <1>9, <1>10, <1>11, <1>12 DEF
     IncomingNext, FallbackResolves, FallbackMatches, FallbackClaims, FallbackPlaces,
     FallbackLooks, FallbackCreates

-----------------------------------------------------------------------------
(* The theorems. *)

\* Nothing is stored, known or under way at the start.
LEMMA InvInit ==
    ASSUME IncomingInit
    PROVE  IncomingInv
<1> USE IncomingMessagesAssumption DEF IncomingInit, Idle
<1>1. Types
  BY DEF Types, RawTasks, Full
<1>2. Working /\ Locked /\ Scanning
  BY DEF Working, Storing, Locked, Scanning
<1>3. Known /\ Placed
  BY DEF Known, Inserts, Pending, Storing, Placed, Falls, Adding
<1>4. Claiming /\ Stored
  BY DEF Claiming, Falls, Stored
<1>5. QED BY <1>1, <1>2, <1>3, <1>4 DEF IncomingInv

\* The invariant is inductive.
LEMMA InvNext ==
    ASSUME IncomingInv, ~Overlap, [IncomingNext]_incomingVars
    PROVE  IncomingInv'
<1>1. CASE IncomingNext
  BY <1>1, TypesNext, WorkingNext, LockedNext, KnownNext, PlacedNext, ClaimingNext,
     StoredNext, ScanningNext DEF IncomingInv
<1>2. CASE UNCHANGED incomingVars
  <2>1. Types' /\ Working' /\ Locked'
    BY <1>2 DEF incomingVars, IncomingInv, Types, Working, Locked
  <2>2. Known'
    BY <1>2 DEF incomingVars, IncomingInv, Known, Inserts, Pending
  <2>3. Placed'
    BY <1>2 DEF incomingVars, IncomingInv, Placed, Falls, Adding
  <2>4. Claiming'
    BY <1>2 DEF incomingVars, IncomingInv, Claiming, Falls, Adding, Clean
  <2>5. Stored'
    BY <1>2 DEF incomingVars, IncomingInv, Stored, Falls
  <2>6. Scanning'
    BY <1>2 DEF incomingVars, IncomingInv, Scanning, Scans, Handles, Waited, Inserts, Pending
  <2>7. QED BY <2>1, <2>2, <2>3, <2>4, <2>5, <2>6 DEF IncomingInv
<1>3. QED BY <1>1, <1>2

\* The invariant holds throughout.
THEOREM IncomingInvariant == ~Overlap /\ IncomingSpec => []IncomingInv
<1> SUFFICES ASSUME ~Overlap
             PROVE  IncomingSpec => []IncomingInv
  OBVIOUS
<1>1. IncomingInit => IncomingInv
  BY InvInit
<1>2. IncomingInv /\ [IncomingNext]_incomingVars => IncomingInv'
  BY InvNext
<1>3. QED BY <1>1, <1>2, PTL DEF IncomingSpec

\* A linked packet is stored and its message has a row, and the lock of
\* decrypted_dm_store_lock is held by the one task inside a store.
THEOREM IncomingShape == ~Overlap /\ IncomingSpec => []IncomingTypeOK
<1>1. IncomingInv => IncomingTypeOK
  BY DEF IncomingInv, Types, Locked, Stored, IncomingTypeOK
<1>2. QED BY <1>1, IncomingInvariant, PTL

\* Whatever observes a direct message, it is stored once: a row under the full
\* key excludes one under the prefix (Claiming).
THEOREM DmStoredOnce == ~Overlap /\ IncomingSpec => []OneRowPerDm
<1>1. ASSUME IncomingInv
      PROVE  OneRowPerDm
  <2>1. SUFFICES ASSUME NEW r \in rows, NEW s \in rows, r.msg = s.msg
                 PROVE  r = s
    BY DEF OneRowPerDm
  <2>2. /\ r.msg \in Msgs /\ r.key \in {Full, Prefix} /\ r = Row(r.msg, r.key)
        /\ s.key \in {Full, Prefix} /\ s = Row(s.msg, s.key)
    BY <1>1 DEF IncomingInv, Types, Row
  <2>3. ~(Row(r.msg, Full) \in rows /\ Row(r.msg, Prefix) \in rows)
    BY <1>1, <2>2 DEF IncomingInv, Claiming, Clean
  <2>4. r.key = s.key
    BY <2>1, <2>2, <2>3
  <2>5. QED BY <2>1, <2>2, <2>4
<1>2. QED BY <1>1, IncomingInvariant, PTL

\* A handler that is through has stored its message, and none raises.
THEOREM DmNeverLost == ~Overlap /\ IncomingSpec => []NoDmLost
<1>1. ASSUME IncomingInv
      PROVE  NoDmLost
  <2>1. \A m \in Msgs : Row(m, Full).msg = m /\ Row(m, Prefix).msg = m
    BY DEF Row
  <2>2. \A m \in Msgs : fallback[m].pc \in {"done", "raised"} => \E r \in rows : r.msg = m
    BY <1>1, <2>1 DEF IncomingInv, Types, Stored, Falls
  <2>3. \A o \in Observers : raw[o].pc # "raised"
    BY <1>1 DEF IncomingInv, Types, RawTasks, Storing
  <2>4. QED BY <2>2, <2>3 DEF NoDmLost
<1>2. QED BY <1>1, IncomingInvariant, PTL

\* Once a contact is known and nothing is under way, its conversation is in one
\* place.
THEOREM ConversationInOnePlace == ~Overlap /\ IncomingSpec => []OneConversation
<1>1. ASSUME IncomingInv
      PROVE  OneConversation
  <2>1. SUFFICES ASSUME Quiet, NEW k \in contacts
                 PROVE  k \notin placeholders /\ Clean(k)
    BY DEF OneConversation, Clean
  <2>2. \A a \in Adds : add[a].pc \notin {"promote", "claim"}
    BY <2>1 DEF Quiet, Ended
  <2>3. QED BY <1>1, <2>2 DEF IncomingInv, Placed, Claiming, Adding
<1>2. QED BY <1>1, IncomingInvariant, PTL

\* Packets heard before their sender was known are not forgotten: each is linked
\* or waited for (Scanning), and nothing waits when all is quiet.
THEOREM HistoryNotForgotten == ~Overlap /\ IncomingSpec => []HistoryDecrypted
<1>1. ASSUME IncomingInv
      PROVE  HistoryDecrypted
  <2>1. SUFFICES ASSUME Quiet, NEW k \in contacts,
                        \A a \in Adds : add[a].peer = k => add[a].advert,
                        NEW m \in packets, From[m] = k
                 PROVE  m \in linked
    BY DEF HistoryDecrypted
  <2>2. k \in Peers
    BY <1>1 DEF IncomingInv, Types
  <2>3. /\ \A a \in Adds : ~Pending(a)
        /\ \A o \in Observers \cup Peers : raw[o].pc \in {"idle", "done"}
    BY <1>1, <2>1 DEF Quiet, Ended, Pending, IncomingInv, Types, RawTasks, Storing
  <2>4. ~Waited(k, m)
    BY <2>1, <2>2, <2>3 DEF Waited, Inserts, Scans, Handles, Storing
  <2>5. m \in linked \cup raw[k].seen
    BY <1>1, <2>1, <2>4 DEF IncomingInv, Scanning
  <2>6. raw[k].todo = {} /\ ~Handles(k, m)
    BY <1>1, <2>2, <2>3 DEF IncomingInv, Scanning, Handles, Storing
  <2>7. QED BY <1>1, <2>2, <2>5, <2>6 DEF IncomingInv, Scanning
<1>2. QED BY <1>1, IncomingInvariant, PTL

\* No step drops a stored message or a packet's link to it: a claim changes the
\* key a row is stored under and nothing else does even that
\* (claim_prefix_messages, MessageRepository.create).
MessagesStay ==
    /\ \A m \in Msgs : (\E r \in rows : r.msg = m) => \E r \in rows' : r.msg = m
    /\ \A m \in Msgs : Row(m, Full) \in rows => Row(m, Full) \in rows'
    /\ linked \subseteq linked'
THEOREM MessagesNeverDropped == ~Overlap /\ IncomingSpec => [][MessagesStay]_incomingVars
<1>1. ASSUME IncomingInv, NEW k, Claims(k)
      PROVE  /\ \A m \in Msgs : (\E r \in rows : r.msg = m) => \E r \in rows' : r.msg = m
             /\ \A m \in Msgs : Row(m, Full) \in rows => Row(m, Full) \in rows'
  <2>1. \A r \in rows : r.msg \in Msgs /\ (r = Row(r.msg, Full) \/ r = Row(r.msg, Prefix))
    BY <1>1 DEF IncomingInv, Types, Row
  <2>2. \A m \in Msgs : Row(m, Full).msg = m /\ Row(m, Prefix).msg = m
    BY DEF Row
  <2>3. QED BY <1>1, <2>1, <2>2, ClaimedRows, SMTT(30) DEF IncomingInv
<1>2. ASSUME IncomingInv, IncomingNext
      PROVE  MessagesStay
  <2>1. CASE \E k : Claims(k) /\ UNCHANGED linked
    BY <1>1, <1>2, <2>1 DEF MessagesStay
  <2>2. CASE rows \subseteq rows' /\ linked \subseteq linked'
    BY <2>2 DEF MessagesStay
  <2>3. QED
    BY <1>2, <2>1, <2>2 DEF IncomingNext, FallbackResolves, FallbackMatches,
       FallbackClaims, FallbackPlaces, FallbackLooks, FallbackCreates, RawStores,
       HistoryReads, HistoryNext, RawCandidates, RawClaims, RawLocks, RawLooks,
       RawCreates, AddUpserts, AddPromotes, AddClaims, Stores
<1>3. ASSUME IncomingInv, [IncomingNext]_incomingVars
      PROVE  [MessagesStay]_incomingVars
  BY <1>2, <1>3
<1>4. QED BY <1>3, IncomingInvariant, PTL DEF IncomingSpec

=============================================================================
