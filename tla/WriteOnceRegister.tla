--------------------------- MODULE WriteOnceRegister ---------------------------
(***************************************************************************)
(* What a create-only publication promises its publishers: the first value  *)
(* written stays for ever, and a publisher is told that it holds the        *)
(* register only if the register holds what that publisher proposed.        *)
(***************************************************************************)
CONSTANTS Clients,     \* publishers
          Proposal,    \* [Clients -> value], what each of them would publish
          Foreign,     \* a value no publisher proposes
          Empty        \* nothing was published

VARIABLES value,       \* the published value
          holders      \* the publishers that were told it is published

Init == value = Empty /\ holders = {}

Publish ==
    /\ value = Empty
    /\ value' \in {Proposal[c] : c \in Clients} \cup {Foreign}
    /\ UNCHANGED holders

Tell(c) ==
    /\ value = Proposal[c]
    /\ holders' = holders \cup {c}
    /\ UNCHANGED value

\* A new attempt of a publisher starts from no answer.
Ask(c) == holders' = holders \ {c} /\ UNCHANGED value

Next == Publish \/ \E c \in Clients : Tell(c) \/ Ask(c)

Spec == Init /\ [][Next]_<<value, holders>>
=============================================================================
