------------------------------- MODULE Survey -------------------------------
(***************************************************************************)
(* The market survey (app/avis): its questions one per screen, what each   *)
(* screen checks, the single submission, and SurveyService at the other    *)
(* end.  One visit of the page.                                            *)
(*                                                                         *)
(* One question of each kind that constrains the answers stands for those  *)
(* of its kind; free texts and the budget, always complete or chosen like  *)
(* a single choice, are left out.                                          *)
(***************************************************************************)
EXTENDS Pages, Naturals, Sequences

CONSTANTS
    MaxAtouts,      \* selling points to choose from
    MaxSendErrors   \* bound: submissions that fail

ASSUME SurveyAssumption == {MaxAtouts, MaxSendErrors} \subseteq Nat

VARIABLES
    phase,      \* page: intro, form, done
    screen,     \* page: stepIndex, from 1
    answers,    \* page: answers
    sending,    \* page: submitting, and what was sent and became of it
    responses,  \* SurveyResponse rows of this visit
    blind,      \* history: intentBefore when the selling points first appeared
    refused,    \* history: the address of a submission that the API refused
    sendErrors  \* bound: submissions that failed

surveyVars == <<phase, screen, answers, sending, responses, blind, refused, sendErrors>>

serverState == <<responses, refused>>

SurveySteps == <<"residence", "blockers", "reassurances", "intentBefore", "atouts",
                 "topAtouts", "contact">>

\* "AUTRE" opens a free text, on these three questions.
Ticks == [residence |-> {"LOME", "AUTRE"}, blockers |-> {"PRIX", "AUTRE"},
            reassurances |-> {"AUTRE"}]

\* Its key among otherAnswers.
OtherKey == [residence |-> "residence", blockers |-> "freins", reassurances |-> "reassurances"]

\* ALLOWED_OTHER_KEYS, in the page and in the API.
AllowedKeys == {"freins", "decision", "reassurances"}

\* An address may satisfy the page's pattern and not the API's IsEmail.
Mails == {"none", "wrong", "loose", "valid"}

\* PHONE_PATTERN is that of the API; the page also counts the digits.
Numbers == {"none", "wrong", "sparse", "valid"}

Notes == 1 .. 2     \* of five; 0 is null

InitialAnswers ==
    [residence |-> {}, blockers |-> {}, reassurances |-> {}, intentBefore |-> 0,
     topAtouts |-> 0, others |-> {}, mail |-> "none", whatsapp |-> "none",
     consent |-> FALSE]

Unsent == [step |-> "none", payload |-> InitialAnswers]

SurveyInit ==
    /\ phase = "intro" /\ screen = 1
    /\ answers = InitialAnswers
    /\ sending = Unsent
    /\ responses = 0 /\ blind = 0 /\ refused = None
    /\ sendErrors = 0

-----------------------------------------------------------------------------
(* The answers of a screen.                                                *)

On(key) == phase = "form" /\ SurveySteps[screen] = key

Answer(key, value) ==
    /\ answers' = [answers EXCEPT ![key] = value]
    /\ UNCHANGED <<phase, screen, sending, serverState, blind, sendErrors>>

Start ==
    /\ phase = "intro"
    /\ phase' = "form" /\ screen' = 1
    /\ UNCHANGED <<answers, sending, serverState, blind, sendErrors>>

\* A single choice; another one than "AUTRE" takes its text away.
Choose(v) ==
    /\ On("residence")
    /\ answers' = [answers EXCEPT !.residence = {v},
                                  !.others = IF v = "AUTRE" THEN @ ELSE @ \ {"residence"}]
    /\ UNCHANGED <<phase, screen, sending, serverState, blind, sendErrors>>

\* toggleMulti; only the text of "freins" (and of "decision") goes with "AUTRE".
ToggleMulti(key, v) ==
    /\ On(key)
    /\ answers' =
          IF v \in answers[key]
          THEN [answers EXCEPT ![key] = @ \ {v},
                               !.others = IF v = "AUTRE" /\ key = "blockers" THEN @ \ {"freins"} ELSE @]
          ELSE [answers EXCEPT ![key] = @ \cup {v}]
    /\ UNCHANGED <<phase, screen, sending, serverState, blind, sendErrors>>

\* updateOtherAnswer; an empty text is as none.
TypeOther(key) ==
    /\ On(key) /\ "AUTRE" \in answers[key]
    /\ \E others \in {answers.others \cup {OtherKey[key]}, answers.others \ {OtherKey[key]}} :
          Answer("others", others)

SetIntent(note) == On("intentBefore") /\ Answer("intentBefore", note)

\* How many are ticked: one less, or one more, but never a fourth.
ToggleTopAtouts ==
    /\ On("topAtouts")
    /\ \E n \in {answers.topAtouts - 1, answers.topAtouts + 1} \cap (0 .. MaxAtouts) :
          n <= 3 /\ Answer("topAtouts", n)

\* The contact may be edited while the survey is being sent, too.
EditContact ==
    /\ On("contact")
    /\ \/ \E mail \in Mails : Answer("mail", mail)
       \/ \E number \in Numbers : Answer("whatsapp", number)
       \/ Answer("consent", ~answers.consent)

-----------------------------------------------------------------------------
(* From screen to screen.                                                  *)

HasContact(a) == a.mail # "none" \/ a.whatsapp # "none"

\* contactError.
ContactComplete ==
    HasContact(answers) =>
        answers.consent /\ answers.mail # "wrong" /\ answers.whatsapp \in {"none", "valid"}

\* isStepComplete.
StepComplete ==
    CASE SurveySteps[screen] \in DOMAIN Ticks -> answers[SurveySteps[screen]] # {}
      [] SurveySteps[screen] = "intentBefore" -> answers.intentBefore \in 1 .. 5
      [] SurveySteps[screen] = "atouts" -> TRUE
      [] SurveySteps[screen] = "topAtouts" -> answers.topAtouts <= 3
      [] SurveySteps[screen] = "contact" -> ContactComplete

GoNext ==
    /\ phase = "form" /\ sending.step = "none"
    /\ StepComplete /\ screen < Len(SurveySteps)
    /\ screen' = screen + 1
    /\ blind' = IF SurveySteps[screen] = "intentBefore" /\ blind = 0 THEN answers.intentBefore ELSE blind
    /\ UNCHANGED <<phase, answers, sending, serverState, sendErrors>>

\* Fault: the way back from the selling points is open.
FaultGoBack ==
    /\ phase = "form" /\ sending.step = "none" /\ screen > 1
    /\ screen' = screen - 1
    /\ UNCHANGED <<phase, answers, sending, serverState, blind, sendErrors>>

\* canGoBack, and the same check in goBack.
GoBack ==
    /\ phase = "form" /\ sending.step = "none" /\ screen > 1
    /\ SurveySteps[screen] # "atouts"
    /\ screen' = screen - 1
    /\ UNCHANGED <<phase, answers, sending, serverState, blind, sendErrors>>

-----------------------------------------------------------------------------
(* The submission.                                                         *)

\* Fault: every free text is sent.
FaultBuildAll == answers

\* buildSubmission: allowed texts, each with its "AUTRE" still ticked.
BuildSubmission ==
    [answers EXCEPT
        !.others = {k \in @ \cap AllowedKeys :
                       /\ k = "freins" => "AUTRE" \in answers.blockers
                       /\ k = "reassurances" => "AUTRE" \in answers.reassurances},
        !.consent = @ /\ HasContact(answers)]

Submit ==
    /\ On("contact") /\ sending.step = "none" /\ ContactComplete
    /\ sending' = [step |-> "sent", payload |-> BuildSubmission]
    /\ UNCHANGED <<phase, screen, answers, serverState, blind, sendErrors>>

\* CreateSurveyDto, then the consent that SurveyService.create requires.
Accepted(p) ==
    /\ \A key \in DOMAIN Ticks : p[key] # {}
    /\ p.intentBefore \in 0 .. 5
    /\ p.topAtouts <= 3
    /\ p.others \subseteq AllowedKeys
    /\ p.mail \in {"none", "valid"}
    /\ p.whatsapp # "wrong"
    /\ HasContact(p) => p.consent

\* The response and its contact, in one transaction.
Create ==
    /\ sending.step = "sent" /\ Accepted(sending.payload)
    /\ responses' = responses + 1
    /\ sending' = [sending EXCEPT !.step = "stored"]
    /\ UNCHANGED <<phase, screen, answers, refused, blind, sendErrors>>

Refuse ==
    /\ sending.step = "sent" /\ ~Accepted(sending.payload)
    /\ refused' = sending.payload.mail
    /\ sending' = Unsent
    /\ UNCHANGED <<phase, screen, answers, responses, blind, sendErrors>>

Thank ==
    /\ sending.step = "stored"
    /\ phase' = "done" /\ sending' = Unsent
    /\ UNCHANGED <<screen, answers, serverState, blind, sendErrors>>

\* The request or its answer is lost: "réessayez dans un instant".
SendFails ==
    /\ sending.step # "none" /\ sendErrors < MaxSendErrors
    /\ sendErrors' = sendErrors + 1
    /\ sending' = Unsent
    /\ UNCHANGED <<phase, screen, answers, serverState, blind>>

SurveyNext ==
    \/ Start \/ GoNext \/ GoBack \/ EditContact
    \/ \E v \in Ticks.residence : Choose(v)
    \/ \E key \in {"blockers", "reassurances"} : \E v \in Ticks[key] : ToggleMulti(key, v)
    \/ \E key \in DOMAIN Ticks : TypeOther(key)
    \/ \E note \in Notes : SetIntent(note)
    \/ ToggleTopAtouts
    \/ Submit \/ Create \/ Refuse \/ Thank \/ SendFails

SurveySpec == SurveyInit /\ [][SurveyNext]_surveyVars

-----------------------------------------------------------------------------
(* What the study may rely on.                                             *)

\* The note given before the selling points were shown is the one that is
\* kept, wherever the visitor goes back to afterwards.
BlindNoteStays == blind # 0 => answers.intentBefore = blind

\* Answers that passed every screen are refused by the API for an address only:
\* one that the page's pattern accepts and IsEmail does not.
RefusedForMailOnly == refused \in {None, "loose"}

=============================================================================
