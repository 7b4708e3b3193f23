------------------------------ MODULE SitePages ------------------------------
(***************************************************************************)
(* The pages of the web client with the API behind them: the public        *)
(* catalogue and the survey, the session and its forms, the buyer's        *)
(* reservations and documents, the administration's reservations and       *)
(* identity files, and the follow-up of the site, whose notices the        *)
(* buyer's page shows.  They share neither component state nor handler; a  *)
(* behaviour is a visit of one of them.                                    *)
(* The catalogue page of the administration is module CataloguePage.       *)
(***************************************************************************)
EXTENDS SiteFollowUp, BuyerReservations, BuyerDocuments, ReservationsPage,
        KycDesk, Survey, PublicCatalogue, ClientSession

VARIABLE section    \* the page that is visited

vars == <<section, siteVars, bookingVars, documentVars, saleVars, kycDeskVars,
          surveyVars, publicVars, clientVars>>

Init ==
    /\ section \in {"site", "bookings", "documents", "sales", "identities", "survey", "public",
                   "session"}
    /\ SiteInit /\ BookingInit /\ DocumentInit /\ SaleInit
    /\ KycDeskInit /\ SurveyInit /\ PublicInit
    /\ section # "site" => \A a \in Artisans : artisan[a] = "none"
    /\ section # "documents" => identity = "VALIDE"
    /\ section # "sales" => \A r \in Sales : sale[r].contract = "none"
    /\ section # "public" => \A h \in Homes : home[h] = "DISPONIBLE"
    /\ ClientInit
    /\ section # "session" => accounts = {} /\ route = OnPage("/login")

buyerVars == <<bookingVars, documentVars>>
officeVars == <<saleVars, kycDeskVars>>
visitorVars == <<surveyVars, publicVars, clientVars>>

Next ==
    /\ UNCHANGED section
    /\ \/ section = "site" /\ SiteNext /\ UNCHANGED <<buyerVars, officeVars, visitorVars>>
       \/ section = "bookings" /\ BookingNext /\ UNCHANGED <<siteVars, documentVars, officeVars, visitorVars>>
       \/ section = "documents" /\ DocumentNext /\ UNCHANGED <<siteVars, bookingVars, officeVars, visitorVars>>
       \/ section = "sales" /\ SaleNext /\ UNCHANGED <<siteVars, buyerVars, kycDeskVars, visitorVars>>
       \/ section = "identities" /\ KycDeskNext /\ UNCHANGED <<siteVars, buyerVars, saleVars, visitorVars>>
       \/ section = "survey" /\ SurveyNext /\ UNCHANGED <<siteVars, buyerVars, officeVars, publicVars, clientVars>>
       \/ section = "public" /\ PublicNext /\ UNCHANGED <<siteVars, buyerVars, officeVars, surveyVars, clientVars>>
       \/ section = "session" /\ ClientNext /\ UNCHANGED <<siteVars, buyerVars, officeVars, surveyVars, publicVars>>

Spec == Init /\ [][Next]_vars

=============================================================================
