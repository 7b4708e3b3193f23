--------------------------- MODULE LaunchHistory ---------------------------
(***************************************************************************)
(* Launch with a memory of the handlers that another one overtook: a       *)
(* history variable, which constrains no behaviour.                        *)
(***************************************************************************)
EXTENDS Launch

VARIABLE overtaken  \* handlers in flight since before the block last moved

historyVars == <<vars, overtaken>>

Overtakes ==
    overtaken' =
        {h \in Handlers :
            /\ call'[h] # Idle
            /\ h \in overtaken \/ (call[h] # Idle /\ launch' # launch)}

HistoryInit == Init /\ overtaken = {}

HistorySpec == HistoryInit /\ [][Next /\ Overtakes]_historyVars

Forward(from, to) ==
    \E n, m \in 1 .. 5 :
        from = LaunchOrder[n] /\ to = LaunchOrder[m] /\ m \in {n, n + 1}

\* The life cycle drawn over LaunchService, one stage forward at a time, is
\* left only by a check, a submission or a securing that another handler's
\* move overtook: handlers that do not overlap keep to it.
OffCourseByOvertakenOnly ==
    [][~Forward(launch, launch')
          => \E h \in overtaken : call'[h] = Idle]_historyVars

=============================================================================
