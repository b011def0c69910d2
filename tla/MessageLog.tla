----------------------------- MODULE MessageLog -----------------------------
(***************************************************************************)
(* What a channel's message log promises (spec.md 3 and 4.1): every        *)
(* published message gets the next sequence number, messages never change *)
(* once appended, and what is retained is the newest window of at most     *)
(* Limit messages of the history, with no gaps.                            *)
(*                                                                         *)
(* history[i] is the timestamp of the message with sequence i; retained is *)
(* the set of sequences a Lookup can still return.                         *)
(***************************************************************************)
EXTENDS Naturals, Sequences

CONSTANTS Limit,      \* retention limit (messages per channel)
          Times       \* timestamps a message may carry

VARIABLES history, retained

AppendMsg(t) ==
    /\ history' = Append(history, t)
    /\ retained' = { i \in (retained \cup {Len(history')}) :
                        i > Len(history') - Limit }

Init == history = <<>> /\ retained = {}

Next == \E t \in Times : AppendMsg(t)

Spec == Init /\ [][Next]_<<history, retained>>

=============================================================================
