---------------------------- MODULE CataloguePage ----------------------------
(***************************************************************************)
(* The catalogue page of the back office (app/admin/catalogue): its units, *)
(* their pictures and the views of the residence.  The three sections      *)
(* share neither state nor handler; a behaviour works in one of them.      *)
(***************************************************************************)
EXTENDS CatalogueDesk, CatalogueMedia, CatalogueViews

VARIABLE section    \* the section of the page the administrator works in

vars == <<section, deskVars, mediaVars, viewsVars>>

Init ==
    /\ section \in {"units", "media", "views"}
    /\ DeskInit /\ MediaInit /\ ViewsInit
    /\ section # "units" => \A u \in Units : row[u].there
    /\ section # "views" => \A v \in Views : ~saved[v].there

Next ==
    /\ UNCHANGED section
    /\ \/ section = "units" /\ DeskNext /\ UNCHANGED <<mediaVars, viewsVars>>
       \/ section = "media" /\ MediaNext /\ UNCHANGED <<deskVars, viewsVars>>
       \/ section = "views" /\ ViewsNext /\ UNCHANGED <<deskVars, mediaVars>>

Spec == Init /\ [][Next]_vars

=============================================================================
