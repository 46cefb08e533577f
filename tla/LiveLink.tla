------------------------------ MODULE LiveLink ------------------------------
(***************************************************************************)
(* What the web client's socket promises to the rest of the client: a link *)
(* that is up or down, and a call to resynchronise at every opening but    *)
(* the first, because whatever was sent while the link was down is lost.   *)
(***************************************************************************)
VARIABLES
  link,   \* events reach the client
  ever,   \* the link has been up before
  told    \* the last opening asked the client to resynchronise

linkVars == <<link, ever, told>>

Init == link = FALSE /\ ever = FALSE /\ told = FALSE

Open == /\ ~link /\ link' = TRUE
        /\ ever' = TRUE /\ told' = ever

Lose == link /\ link' = FALSE /\ UNCHANGED <<ever, told>>

Next == Open \/ Lose

Spec == Init /\ [][Next]_linkVars

=============================================================================
