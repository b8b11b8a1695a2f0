---------------------------- MODULE Conversation ----------------------------
(***************************************************************************)
(* What a chat thread promises of its history, whatever crashes and        *)
(* whatever Team repeats: an exchange is appended whole and at most once,  *)
(* in the order the turns were started; only the oldest exchanges are      *)
(* dropped to fit a budget; and the conversation may be forgotten.  An     *)
(* exchange that was dropped never comes back behind an older one          *)
(* (threads.rs, the ordering of the two stores).                           *)
(***************************************************************************)
EXTENDS Integers, Sequences

CONSTANT Exchange  \* the exchanges, numbered in the order they were started

VARIABLE history

Init == history = <<>>

Exchanged(x) ==
  /\ \A i \in DOMAIN history : history[i] < x
  /\ history' = Append(history, x)

Trim(n) == history' = SubSeq(history, n, Len(history))

Forget == history' = <<>>

Next ==
  \/ \E x \in Exchange : Exchanged(x)
  \/ \E n \in DOMAIN history : Trim(n)
  \/ Forget

Spec == Init /\ [][Next]_history
=============================================================================
