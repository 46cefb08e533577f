------------------------------ MODULE Composer ------------------------------
(***************************************************************************)
(* The message composer: its drafts and its sends, and the replacement of  *)
(* what is typed.                                                          *)
(***************************************************************************)
EXTENDS Integers, Sequences, FiniteSets, SequencesExt

CONSTANTS ComposerWorlds,     \* the sets of circumstances looked at
          MaxComposerTurns,   \* changes of conversation and of the radio
          MaxComposerLetters, \* letters of a text
          MaxReplaceLetters,  \* letters typed
          MaxReplaceTurns     \* changes of the map or the setting

VARIABLE ui

-----------------------------------------------------------------------------
(***************************************************************************)
(* The message composer (MessageInput.tsx, conversationDrafts.ts): one     *)
(* field shared by all conversations, whose text is saved as a draft at    *)
(* every keystroke, exchanged when the reader changes conversation, and    *)
(* emptied when a message was accepted. A text is a sequence of letters. A *)
(* letter is the conversation it was written for; "@" is a mention, "gif"  *)
(* what the picker sends. In the world "crosses" the reader does not wait  *)
(* for a message that is on its way: they write on, or change              *)
(* conversation, before it is answered.                                    *)
(***************************************************************************)
Convs == {"ann", "pub"}

\* limits: a channel message also carries the sender's name.
HardLimit(c) == IF c = "ann" THEN 3 ELSE 2
TooLong(u) == Len(u.text) >= HardLimit(u.conv)

NoFlight == [on |-> FALSE, conv |-> "ann", text |-> <<>>, typed |-> FALSE, live |-> FALSE]

ComposerInit ==
  \E w \in ComposerWorlds :
    ui = [world |-> w, shown |-> FALSE, conv |-> "ann", text |-> <<>>, reply |-> FALSE, panel |-> FALSE, sending |-> FALSE,
          up |-> TRUE, drafts |-> [c \in Convs |-> <<>>], flight |-> NoFlight, late |-> NoFlight, mine |-> [c \in Convs |-> <<>>], turns |-> 0]

\* The reader acts now: they wait for a message on its way, unless they hurry.
Acts(u) == ~u.flight.on \/ "crosses" \in u.world
Turn(u) == [u EXCEPT !.turns = @ + 1]

\* saveConversationDraft: an empty draft deletes the key.
SaveDraft(u, c, text) == [u EXCEPT !.drafts[c] = text]

\* setText with persistDraft: what the reader writes is at once the draft.
Written(u, text) == SaveDraft([u EXCEPT !.text = text, !.mine[u.conv] = text], u.conv, text)

\* The effect on the conversation: its draft is loaded, quote and picker close.
OpenDraft(u, c) == [u EXCEPT !.conv = c, !.text = u.drafts[c], !.reply = FALSE, !.panel = FALSE]

Mount ==
  \E c \in Convs :
    /\ ~ui.shown /\ Acts(ui) /\ ui.turns < MaxComposerTurns
    /\ ui' = OpenDraft(Turn([ui EXCEPT !.shown = TRUE, !.sending = FALSE]), c)

\* A tool, or nothing, takes the place of the conversation: the text is saved.
Unmount ==
  /\ ui.shown /\ Acts(ui)
  /\ ui.flight.on => ~ui.late.on
  /\ LET u == SaveDraft(ui, ui.conv, ui.text) IN
     ui' = [u EXCEPT !.shown = FALSE, !.sending = FALSE, !.text = <<>>, !.reply = FALSE, !.panel = FALSE,
                     !.flight = NoFlight, !.late = IF u.flight.on THEN [u.flight EXCEPT !.live = FALSE] ELSE @]

Switch ==
  \E c \in Convs \ {ui.conv} :
    /\ ui.shown /\ Acts(ui) /\ ui.turns < MaxComposerTurns
    /\ ui' = OpenDraft(Turn(SaveDraft(ui, ui.conv, ui.text)), c)

\* The textarea is disabled while the radio is away.
CanWrite(u) == u.shown /\ u.up /\ Acts(u) /\ Len(u.text) < MaxComposerLetters

ComposerType == CanWrite(ui) /\ ui' = Written(ui, Append(ui.text, ui.conv))
Erase == ui.shown /\ ui.up /\ Acts(ui) /\ ui.text # <<>> /\ ui' = Written(ui, Front(ui.text))

\* insertEmoji, which leaves the picker open.
InsertEmoji == ui.panel /\ CanWrite(ui) /\ ui' = Written(ui, Append(ui.text, ui.conv))

\* appendText: a name of the list is clicked.
AppendText == ui.shown /\ Acts(ui) /\ Len(ui.text) < MaxComposerLetters /\ ui' = Written(ui, Append(ui.text, "@"))

\* startReply: the mention comes first, once.
StartReply ==
  /\ ui.shown /\ Acts(ui) /\ Len(ui.text) < MaxComposerLetters
  /\ ui' = Written([ui EXCEPT !.reply = TRUE], IF ui.text # <<>> /\ Head(ui.text) = "@" THEN ui.text ELSE <<"@">> \o ui.text)
CancelReply == ui.reply /\ Acts(ui) /\ ui' = [ui EXCEPT !.reply = FALSE]

TogglePanel == ui.shown /\ ui.up /\ Acts(ui) /\ ui' = [ui EXCEPT !.panel = ~@]

\* A click outside, or Escape.
ClosePanel == ui.panel /\ Acts(ui) /\ ui' = [ui EXCEPT !.panel = FALSE]

RadioChanges == ui.shown /\ ui.turns < MaxComposerTurns /\ ui' = Turn([ui EXCEPT !.up = ~@])

Launch(u, text, typed) ==
  [u EXCEPT !.sending = TRUE, !.flight = [on |-> TRUE, conv |-> u.conv, text |-> text, typed |-> typed, live |-> TRUE]]

\* submitMessage's early returns.
MaySubmit(u) == u.text # <<>> /\ ~u.sending /\ u.up /\ ~TooLong(u)
Submit == ui.shown /\ Acts(ui) /\ MaySubmit(ui) /\ ui' = Launch(ui, ui.text, TRUE)

\* sendPayload: a picture or a place, with the quote's mention before it.
Payload(u) == IF u.reply THEN <<"@", "gif">> ELSE <<"gif">>
MayPayload(u) == ~u.sending /\ u.up
SendPayload == ui.panel /\ MayPayload(ui) /\ ui' = Launch(ui, Payload(ui), FALSE)

\* sendLocation closes the picker first.
SendLocation == ui.panel /\ MayPayload(ui) /\ ui' = Launch([ui EXCEPT !.panel = FALSE], Payload(ui), FALSE)

\* After onSend: the field is emptied, and the draft of the conversation the
\* message was written in.
Accepted(u, f) ==
  LET v == IF ~f.live THEN u
           ELSE IF f.typed THEN [u EXCEPT !.text = <<>>, !.reply = FALSE]
           ELSE [u EXCEPT !.reply = FALSE, !.panel = FALSE] IN
  IF f.typed THEN SaveDraft(v, f.conv, <<>>) ELSE v

\* finally
Settled(u) == [u EXCEPT !.sending = FALSE]

\* What was written for the conversation has been sent.
Given(u, f) == IF f.typed THEN [u EXCEPT !.mine[f.conv] = <<>>] ELSE u

SendAnswers ==
  /\ ui.flight.on
  /\ ui' = Settled(Accepted(Given([ui EXCEPT !.flight = NoFlight], ui.flight), ui.flight))

\* A refused message leaves the composer sending.
RefusedSending(u) == [u EXCEPT !.flight = NoFlight]

\* A refused text is put back into the field.
RefusedRestores(u) == Settled([u EXCEPT !.flight = NoFlight, !.text = IF u.flight.typed THEN u.flight.text ELSE @])

Refused(u) == Settled([u EXCEPT !.flight = NoFlight])
SendFails == ui.flight.on /\ ui' = Refused(ui)

\* The answer to a composer that has gone: only the stored draft is reached.
LateAnswers == ui.late.on /\ ui' = Accepted(Given([ui EXCEPT !.late = NoFlight], ui.late), ui.late)
LateFails == ui.late.on /\ ui' = [ui EXCEPT !.late = NoFlight]

ComposerNext ==
  \/ Mount \/ Unmount \/ Switch \/ ComposerType \/ Erase \/ InsertEmoji \/ AppendText \/ StartReply \/ CancelReply \/ TogglePanel
  \/ ClosePanel \/ RadioChanges \/ Submit \/ SendPayload \/ SendLocation \/ SendAnswers \/ SendFails \/ LateAnswers \/ LateFails

-----------------------------------------------------------------------------
\* The state is well formed.
ComposerTypeOK == ui.conv \in Convs /\ ui.shown \in BOOLEAN /\ ui.turns \in 0..MaxComposerTurns

\* What the reader wrote for a conversation and has not sent is still there, in
\* the field or in the stored draft, and what they erased or sent does not come
\* back, through changes of conversation, of screen, and refused messages; if
\* they wait for a message on its way (submitMessage empties whatever text stands
\* in the field when it is answered).
DraftsKept ==
  "crosses" \notin ui.world /\ ~ui.flight.on =>
    \A c \in Convs : ui.mine[c] = IF ui.shown /\ ui.conv = c THEN ui.text ELSE ui.drafts[c]

\* A message and a stored draft hold only what was written for their
\* conversation, however the reader changes it and messages are answered.
NothingCrosses ==
  /\ \A c \in Convs : Range(ui.drafts[c]) \subseteq {c, "@"}
  /\ \A f \in {ui.flight, ui.late} : Range(f.text) \subseteq {f.conv, "@", "gif"}

\* What a conversation's limit forbids is not sent as typed, whatever draft was
\* loaded or text inserted without the keyboard.
SentFits == \A f \in {ui.flight, ui.late} : f.on /\ f.typed => Len(f.text) < HardLimit(f.conv)

\* A composer that is sending can send again in the end, whatever the answer.
SendingEnded == ~ui.sending

-----------------------------------------------------------------------------
(***************************************************************************)
(* Replacing letters while writing (textReplace.ts, the composer's         *)
(* handleChange and the settings' editor): a map of needles is checked     *)
(* before it is stored, and applied to the whole text at every keystroke,  *)
(* the longest needle first, with the cursor kept where the reader writes. *)
(* "c" stands for any letter no needle begins with.                        *)
(***************************************************************************)
Letters == {"x", "b", "c"}

\* Maps a reader may enter, each a sequence of [needle, by], as entered.
Maps ==
  { <<[needle |-> <<"x">>, by |-> <<"a", "b">>]>>,
    <<[needle |-> <<"x">>, by |-> <<"a">>], [needle |-> <<"x", "x">>, by |-> <<"b", "b", "b">>]>>,
    <<[needle |-> <<"b", "c">>, by |-> <<>>], [needle |-> <<>>, by |-> <<"a">>]>>,
    <<[needle |-> <<"x">>, by |-> <<"x", "a">>]>> }

\* startsWith and includes.
StartsAt(s, sub, i) == i + Len(sub) - 1 <= Len(s) /\ SubSeq(s, i, i + Len(sub) - 1) = sub
Includes(s, sub) == \E i \in 1..Len(s) : StartsAt(s, sub, i)

\* setTextReplaceMapJson: no needle stands inside a replacement.
Accepts(m) == \A i, j \in 1..Len(m) : m[i].needle # <<>> => ~Includes(m[j].by, m[i].needle)

\* buildReplacements: the longest first.
Replacements(m) == SortSeq(SelectSeq(m, LAMBDA r : r.needle # <<>>), LAMBDA a, b : Len(a.needle) > Len(b.needle))

\* The needle that stands at a place.
Matching(m, s, i) == SelectSeq(Replacements(m), LAMBDA r : StartsAt(s, r.needle, i))

\* One turn of applyTextReplacements' loop: the cursor moves with what changes
\* before it, and to the end of a replacement it stood inside.
Step(st, m, s, cursor) ==
  LET found == Matching(m, s, st.i)
      r     == Head(found)
      out   == st.out \o r.by IN
  IF st.i > Len(s) THEN st
  ELSE IF found = <<>> THEN [st EXCEPT !.out = Append(@, s[st.i]), !.i = @ + 1]
  ELSE [i      |-> st.i + Len(r.needle),
        out    |-> out,
        cursor |-> IF st.i - 1 + Len(r.needle) <= cursor THEN st.cursor + Len(r.by) - Len(r.needle)
                   ELSE IF st.i - 1 < cursor THEN Len(out)
                   ELSE st.cursor]

Apply(m, s, cursor) ==
  LET st == FoldLeft(LAMBDA a, k : Step(a, m, s, cursor), [i |-> 1, out |-> <<>>, cursor |-> cursor], [k \in 1..Len(s) |-> k]) IN
  [text |-> st.out, cursor |-> IF st.out = s THEN cursor ELSE st.cursor]

ReplaceInit ==
  ui = [map |-> CHOOSE m \in Maps : Accepts(m), on |-> FALSE, text |-> <<>>, cursor |-> 0, raw |-> <<>>, at |-> 0, typed |-> 0, turns |-> 0]

\* The settings' editor: a map that is refused is not stored.
EditMap ==
  \E m \in Maps : m # ui.map /\ ui.turns < MaxReplaceTurns /\ ui' = [ui EXCEPT !.map = IF Accepts(m) THEN m ELSE @, !.turns = @ + 1]
SetEnabled == ui.turns < MaxReplaceTurns /\ ui' = [ui EXCEPT !.on = ~@, !.turns = @ + 1]

\* handleChange: while a letter is being composed nothing is replaced.
Change(u, s, cursor, composing) ==
  LET r == IF u.on /\ ~composing THEN Apply(u.map, s, cursor) ELSE [text |-> s, cursor |-> cursor] IN
  [u EXCEPT !.text = r.text, !.cursor = r.cursor, !.raw = s, !.at = cursor, !.typed = @ + 1]

ReplaceType ==
  \E l \in Letters, composing \in BOOLEAN :
    /\ ui.typed < MaxReplaceLetters
    /\ ui' = Change(ui, SubSeq(ui.text, 1, ui.cursor) \o <<l>> \o SubSeq(ui.text, ui.cursor + 1, Len(ui.text)), ui.cursor + 1, composing)

MoveCursor == \E c \in 0..Len(ui.text) : c # ui.cursor /\ ui' = [ui EXCEPT !.cursor = c, !.raw = ui.text, !.at = c]

ReplaceNext == EditMap \/ SetEnabled \/ ReplaceType \/ MoveCursor

-----------------------------------------------------------------------------
\* The state is well formed.
ReplaceTypeOK == ui.typed \in 0..MaxReplaceLetters /\ ui.turns \in 0..MaxReplaceTurns

\* The map in use never feeds on itself: what it makes of a text of replacements
\* alone is that text, so a keystroke does not make older words grow again.
MapSettles ==
  \A i \in 1..Len(ui.map) : Apply(ui.map, ui.map[i].by, 0).text = ui.map[i].by

\* The cursor stays where the reader writes: what stands before it is what the
\* replacement made of what stood before it, and what follows, of the rest,
\* unless a needle lies across it, which is then wholly before it.
CursorStays ==
  LET before == SubSeq(ui.raw, 1, ui.at)
      after  == SubSeq(ui.raw, ui.at + 1, Len(ui.raw))
      made(s) == Apply(ui.map, s, 0).text IN
  /\ ui.cursor \in 0..Len(ui.text)
  /\ made(before) \o made(after) = ui.text /\ made(before \o after) # ui.raw =>
       SubSeq(ui.text, ui.cursor + 1, Len(ui.text)) = made(after)
=============================================================================
