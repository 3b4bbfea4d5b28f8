------------------------------ MODULE Onboarding ------------------------------
(***************************************************************************)
(* How a student gets to a plan: the wizard (upload, profile, goals,        *)
(* preferences, plan), which lives only while the page awaits a report; the *)
(* older ask-and-reply steps, which a file dropped on the page enters; and  *)
(* the turns the page posts to the agent for what the wizard collected.     *)
(* Uploads, replies and turns end in any order, and one flag, loading,      *)
(* stands for all of them.                                                  *)
(***************************************************************************)
EXTENDS Naturals, Sequences, FiniteSets

CONSTANTS Files,       \* what /api/onboard may be given: "bad", "down" or a report's name
          Derives,     \* the reports that show the home school
          Undeclared,  \* the reports without a declared program
          Homes, GradTerms, Workloads, Toggles, Texts,   \* what the wizard offers
          Sayings,     \* what the student types: "yes", "no", "upload", "done", "term", "other"
          MaxPicks, MaxUploads, MaxSends   \* bounds on the student's acts

VARIABLES wiz,         \* OnboardingWizard's state and parsedDpr
          onPage,      \* the page's onboardingStep, parsedData, profile fields and isLoading
          flight,      \* what the page waits for
          posted,      \* the requests of /api/chat/v2
          picked,      \* what the student chose in this wizard
          spent        \* picks, uploads and sends so far

onboardVars == <<wiz, onPage, flight, posted, picked, spent>>

WizardSteps == <<"upload", "confirm_profile", "goals", "preferences", "plan">>
OptionalSteps == {"confirm_profile", "goals", "preferences"}
DefaultValues == [homeSchool |-> "", gradTerm |-> "", visa |-> "domestic", visaChosen |-> FALSE,
                  workload |-> "balanced", toggled |-> {}, freeText |-> ""]
InitialWizard == [at |-> 1, values |-> DefaultValues, dpr |-> "", busy |-> FALSE]

\* A report has a name.
ASSUME OnboardingAssumption == "" \notin Files

\* A blank text is no preference; "balanced" is the plan as it is.
Given(wanted, turn) == IF wanted THEN <<turn>> ELSE <<>>
PreferenceTurns(v) ==
  Given(v.workload # "balanced", v.workload)
  \o Given("summer" \in v.toggled, "summer") \o Given("jTerm" \in v.toggled, "jTerm")
  \o Given("studyAbroad" \in v.toggled, "studyAbroad") \o Given("honors" \in v.toggled, "honors")
  \o Given(v.freeText \notin {"", "blank"}, v.freeText)

CanBuildPlan(w) == w.dpr # "" /\ w.values.visaChosen

-----------------------------------------------------------------------------
Mounted == onPage.step = "awaiting_dpr"
Step == WizardSteps[wiz.at]
Later(n) == IF n < Len(WizardSteps) THEN n + 1 ELSE n
StepBefore(n) == IF n > 1 THEN n - 1 ELSE n

\* The page takes p: a wizard that leaves the page forgets everything, and the
\* answer to its upload reaches nobody.
PageBecomes(p, fs) ==
  /\ onPage' = p
  /\ IF p.step = "awaiting_dpr"
       THEN flight' = fs /\ UNCHANGED <<wiz, picked>>
       ELSE /\ flight' = {f \in fs : f.kind # "wizard_upload"}
            /\ wiz' = InitialWizard /\ picked' = DefaultValues

GoTo(n, vs) ==
  /\ Mounted /\ wiz' = [wiz EXCEPT !.at = n, !.values = vs]
  /\ UNCHANGED <<onPage, flight, posted, picked, spent>>
NextStep == Step \notin {"upload", "plan"} /\ GoTo(Later(wiz.at), wiz.values)
SkipStep == Step \in OptionalSteps /\ GoTo(Later(wiz.at), wiz.values)
PrevStep == wiz.at > 1 /\ GoTo(StepBefore(wiz.at), wiz.values)
DefaultsOfSkip(vs) == DefaultValues
SkipAllValues(vs) == [f \in DOMAIN DefaultValues |-> vs[f]]
SkipAll == Step # "plan" /\ wiz.dpr # "" /\ GoTo(Len(WizardSteps), SkipAllValues(wiz.values))

Pick(steps, vs(_)) ==
  /\ Mounted /\ Step \in steps /\ spent.picks < MaxPicks
  /\ wiz' = [wiz EXCEPT !.values = vs(wiz.values)] /\ picked' = vs(picked)
  /\ spent' = [spent EXCEPT !.picks = @ + 1]
  /\ UNCHANGED <<onPage, flight, posted>>
SetHomeSchool(c) == wiz.dpr \notin Derives /\ Pick({"confirm_profile"}, LAMBDA v : [v EXCEPT !.homeSchool = c])
SetVisa(s) == Pick({"confirm_profile", "goals"}, LAMBDA v : [v EXCEPT !.visa = s, !.visaChosen = TRUE])
SetGradTerm(t) == Pick({"goals"}, LAMBDA v : [v EXCEPT !.gradTerm = t])
SetWorkload(w) == Pick({"preferences"}, LAMBDA v : [v EXCEPT !.workload = w])
Toggle(k) ==
  Pick({"preferences"}, LAMBDA v : [v EXCEPT !.toggled = IF k \in @ THEN @ \ {k} ELSE @ \union {k}])
SetFreeText(t) == Pick({"preferences"}, LAMBDA v : [v EXCEPT !.freeText = t])
Choose ==
  \/ \E c \in Homes : SetHomeSchool(c)
  \/ \E s \in {"f1", "domestic"} : SetVisa(s)
  \/ \E t \in GradTerms : SetGradTerm(t)
  \/ \E w \in Workloads : SetWorkload(w)
  \/ \E k \in Toggles : Toggle(k)
  \/ \E t \in Texts : SetFreeText(t)

-----------------------------------------------------------------------------
\* /api/onboard parses a file or says why not.
UploadReply(file) ==
  IF file \in {"bad", "down"} THEN [step |-> "awaiting_dpr", dpr |-> ""]
  ELSE [step |-> "confirming_data", dpr |-> file]

\* Only a student without a declared program is offered a second upload.
WizardUpload(file) ==
  /\ Mounted /\ ~wiz.busy /\ spent.uploads < MaxUploads
  /\ Step = "upload" \/ (Step = "confirm_profile" /\ wiz.dpr \in Undeclared)
  /\ flight' = flight \union {[kind |-> "wizard_upload", file |-> file]}
  /\ wiz' = [wiz EXCEPT !.busy = TRUE]
  /\ spent' = [spent EXCEPT !.uploads = @ + 1]
  /\ UNCHANGED <<onPage, posted, picked>>

\* The wizard takes the report and moves on from wherever it is by then.
WizardUploadAnswered(f) ==
  /\ f.kind = "wizard_upload" /\ flight' = flight \ {f}
  /\ wiz' = IF UploadReply(f.file).dpr = "" THEN [wiz EXCEPT !.busy = FALSE]
            ELSE [wiz EXCEPT !.busy = FALSE, !.dpr = f.file, !.at = Later(@)]
  /\ UNCHANGED <<onPage, posted, picked, spent>>

\* A file dropped anywhere on the page, whatever is loading.
DropFile(file) ==
  /\ spent.uploads < MaxUploads
  /\ flight' = flight \union {[kind |-> "drop", file |-> file]}
  /\ onPage' = [onPage EXCEPT !.loading = TRUE]
  /\ spent' = [spent EXCEPT !.uploads = @ + 1]
  /\ UNCHANGED <<wiz, posted, picked>>

DropAnswered(f) ==
  /\ f.kind = "drop" /\ UNCHANGED <<posted, spent>>
  /\ PageBecomes(
       IF f.file = "down" THEN [onPage EXCEPT !.loading = FALSE]
       ELSE [onPage EXCEPT !.loading = FALSE, !.step = UploadReply(f.file).step,
                           !.dpr = IF UploadReply(f.file).dpr = "" THEN @ ELSE f.file],
       flight \ {f})

-----------------------------------------------------------------------------
\* The ask-and-reply steps; "" leaves a field of the page as it is.
Stay(step) == [step |-> step, visa |-> "", grad |-> ""]
StepReply(step, said) ==
  CASE step = "confirming_data" /\ said = "yes" -> Stay("asking_visa")
    [] step = "confirming_data" /\ said = "no" -> Stay("correcting_data")
    [] step = "correcting_data" /\ said = "upload" -> Stay("awaiting_dpr")
    [] step = "correcting_data" /\ said = "done" -> Stay("asking_visa")
    [] step = "asking_visa" -> [step |-> "asking_graduation", grad |-> "",
                                visa |-> IF said = "yes" THEN "f1" ELSE "domestic"]
    [] step = "asking_graduation" /\ said \in {"term", "yes"} ->
         [step |-> "complete", visa |-> "", grad |-> IF said = "term" THEN "asked" ELSE "2027-spring"]
    [] step \in {"awaiting_dpr", "complete"} -> Stay("")
    [] OTHER -> Stay(step)

\* by: 0, or the how-manieth plan of this page the turn is for.
Posting(by, seed, text) ==
  [by |-> by, text |-> text, dpr |-> seed.dpr, home |-> seed.home, visa |-> seed.visa, grad |-> seed.grad]

\* handleSend: the agent answers a student who completed onboarding.
HandleSend(said) ==
  /\ ~onPage.loading /\ spent.sends < MaxSends
  /\ onPage' = [onPage EXCEPT !.loading = TRUE]
  /\ spent' = [spent EXCEPT !.sends = @ + 1]
  /\ IF onPage.step = "complete" /\ onPage.dpr # ""
       THEN /\ posted' = Append(posted, Posting(0, onPage, said))
            /\ flight' = flight \union {[kind |-> "turn"]}
       ELSE /\ flight' = flight \union {[kind |-> "step", step |-> onPage.step, said |-> said]}
            /\ UNCHANGED posted
  /\ UNCHANGED <<wiz, picked>>

OrOld(new, old) == IF new = "" THEN old ELSE new
StepAnswered(f) ==
  /\ f.kind = "step" /\ UNCHANGED <<posted, spent>>
  /\ \E r \in {StepReply(f.step, f.said), Stay("")} :   \* answered, or the call failed
       PageBecomes([onPage EXCEPT !.loading = FALSE, !.step = OrOld(r.step, @),
                                  !.visa = OrOld(r.visa, @), !.grad = OrOld(r.grad, @)], flight \ {f})

\* An undeclared student names a major: the turn goes out with the page's own
\* report, not with the wizard's.
PreviewMajor ==
  /\ Mounted /\ Step = "confirm_profile" /\ wiz.dpr \in Undeclared
  /\ ~onPage.loading /\ spent.sends < MaxSends
  /\ posted' = Append(posted, Posting(0, onPage, "preview"))
  /\ flight' = flight \union {[kind |-> "turn"]}
  /\ onPage' = [onPage EXCEPT !.loading = TRUE]
  /\ spent' = [spent EXCEPT !.sends = @ + 1]
  /\ UNCHANGED <<wiz, picked>>

TurnAnswered(f) ==
  /\ f.kind = "turn" /\ flight' = flight \ {f}
  /\ onPage' = [onPage EXCEPT !.loading = FALSE]
  /\ UNCHANGED <<wiz, posted, picked, spent>>

-----------------------------------------------------------------------------
Seed(w) == [dpr |-> w.dpr, home |-> OrOld(w.values.homeSchool, onPage.home), visa |-> w.values.visa,
            grad |-> OrOld(w.values.gradTerm, onPage.grad)]

\* "Build my plan": onboarding is complete and the preferences go to the
\* agent one turn after the other, unless the page is loading: then they are
\* dropped.
ReachPlan ==
  /\ Mounted /\ Step = "plan" /\ CanBuildPlan(wiz)
  /\ LET turns == PreferenceTurns(wiz.values)
         goes == ~onPage.loading /\ turns # <<>>
     IN /\ PageBecomes([onPage EXCEPT !.step = "complete", !.dpr = wiz.dpr, !.visa = wiz.values.visa,
                                      !.home = Seed(wiz).home, !.grad = Seed(wiz).grad,
                                      !.loading = @ \/ goes],
                       IF goes THEN flight \union {[kind |-> "prefs", seed |-> Seed(wiz), turns |-> Tail(turns),
                                                    chosen |-> picked, plan |-> spent.plans + 1]}
                               ELSE flight)
        /\ posted' = IF goes THEN Append(posted, Posting(spent.plans + 1, Seed(wiz), Head(turns))) ELSE posted
  /\ spent' = [spent EXCEPT !.plans = @ + 1]

\* A turn that fails does not stop the ones after it.
PreferenceAnswered(f) ==
  /\ f.kind = "prefs" /\ UNCHANGED <<wiz, picked, spent>>
  /\ IF f.turns = <<>>
       THEN /\ flight' = flight \ {f} /\ onPage' = [onPage EXCEPT !.loading = FALSE] /\ UNCHANGED posted
       ELSE /\ posted' = Append(posted, Posting(f.plan, f.seed, Head(f.turns)))
            /\ flight' = (flight \ {f}) \union {[f EXCEPT !.turns = Tail(@)]}
            /\ UNCHANGED onPage

-----------------------------------------------------------------------------
OnboardInit ==
  /\ wiz = InitialWizard /\ picked = DefaultValues
  /\ onPage = [step |-> "awaiting_dpr", dpr |-> "", home |-> "", visa |-> "", grad |-> "", loading |-> FALSE]
  /\ flight = {} /\ posted = <<>> /\ spent = [picks |-> 0, uploads |-> 0, sends |-> 0, plans |-> 0]

Answers(f) ==
  WizardUploadAnswered(f) \/ DropAnswered(f) \/ StepAnswered(f) \/ TurnAnswered(f) \/ PreferenceAnswered(f)

OnboardNext ==
  \/ NextStep \/ SkipStep \/ PrevStep \/ SkipAll \/ Choose \/ ReachPlan \/ PreviewMajor
  \/ \E x \in Files : WizardUpload(x) \/ DropFile(x)
  \/ \E s \in Sayings : HandleSend(s)
  \/ \E f \in flight : Answers(f)

OnboardSpec == OnboardInit /\ [][OnboardNext]_onboardVars

-----------------------------------------------------------------------------
\* The turns posted for the choices that f carries: they are the first of the
\* turns those choices give, in their order, and f still holds the rest.
PostedFor(f) == {i \in DOMAIN posted : posted[i].by = f.plan}
TurnsFor(f) == PreferenceTurns(f.chosen)
HandsOver(f) ==
  /\ f.chosen.visaChosen
  /\ f.turns = SubSeq(TurnsFor(f), Cardinality(PostedFor(f)) + 1, Len(TurnsFor(f)))
  /\ \A i \in PostedFor(f) :
       /\ posted[i].text = TurnsFor(f)[Cardinality({j \in PostedFor(f) : j <= i})]
       /\ posted[i].visa = f.chosen.visa /\ posted[i].dpr = f.seed.dpr
       /\ f.chosen.homeSchool # "" => posted[i].home = f.chosen.homeSchool

(* What the student chose reaches the agent: whatever was skipped, gone back  *)
(* over, uploaded again or typed meanwhile, the wizard holds the student's    *)
(* last choices; the turns the page posts for them go out in order, the rest  *)
(* still to come, and every one names the report, the visa status the student *)
(* chose, and the home school if one was picked. A page that is complete has  *)
(* a report (handleWizardReachPlan, skipAll, preferenceTurns.ts).             *)
HandOverIsComplete ==
  /\ wiz.values = picked
  /\ onPage.step = "complete" => onPage.dpr # ""
  /\ \A i \in DOMAIN posted : posted[i].by > 0 => posted[i].dpr # "" /\ posted[i].visa # ""
  /\ \A f \in flight : f.kind = "prefs" => HandsOver(f)
=============================================================================
