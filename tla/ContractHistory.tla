-------------------------- MODULE ContractHistory --------------------------
(***************************************************************************)
(* Contract with a memory of the regenerations that a signature of the     *)
(* owner overtook: a history variable, which constrains no behaviour.      *)
(***************************************************************************)
EXTENDS Contract

VARIABLE overtaken  \* requests about to delete a contract that its owner has
                    \* signed since they read it

historyVars == <<vars, overtaken>>

Overtakes ==
    overtaken' =
        {q \in Requests :
            /\ request'[q].step = "delete"
            /\ \/ q \in overtaken
               \/ /\ request[q].step = "delete"
                  /\ ~SignedBy(request[q].doc, Owner)
                  /\ SignedBy(request[q].doc, Owner)'}

HistoryInit == Init /\ overtaken = {}

HistorySpec == HistoryInit /\ [][Next /\ Overtakes]_historyVars

FairHistorySpec == HistorySpec /\ Fairness

\* "On n'écrase jamais une signature acheteur": the signature of an owner is
\* only ever lost to a regeneration that read the contract before it was
\* signed (regenerateBuyerContract), never to one that comes later.
ErasedByOvertakenOnly ==
    [][\A d \in Docs :
          SignedBy(d, Owner) /\ ~SignedBy(d, Owner)'
            => \E q \in overtaken : At(q, "delete") /\ request[q].doc = d]_historyVars

=============================================================================
