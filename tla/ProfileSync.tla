----------------------------- MODULE ProfileSync -----------------------------
(***************************************************************************)
(* The profile of one student: the chat route builds it from the report of *)
(* every request, merges the stored profile into it, stores it under four  *)
(* conditions, and the two profile tools stage and confirm changes of it.  *)
(* Turns of two tabs, the report upload and the deletion of the account    *)
(* interleave; every call of the store may fail.                           *)
(* catalogYear is treated by the code line by line as declaredPrograms is  *)
(* and is not told apart from it.                                          *)
(***************************************************************************)
EXTENDS Naturals, Sequences, SequencesExt

CONSTANTS Chats,        \* chat turns that may be under way together
          Bodies,       \* requests: [home, visa, report]
          Uploads,      \* reports that are uploaded to refresh the profile
          NewValues,    \* what a student asks update_profile for: [field, value]
          StoredRows,   \* what may be stored at the start
          MaxAsks,      \* bound on the updates asked for in a turn
          MaxRounds     \* bound on the requests of one behavior

Refresher == 0   \* the upload, in the place of a turn

VARIABLES row,      \* students: profile and parsed_dpr
          entry,    \* the newest row of audit_log: its field, new value and writer
          chat,     \* per turn: its step and its copy of the profile
          refresh,  \* the upload under way
          rounds

profileVars == <<row, entry, chat, refresh, rounds>>

Absent == "absent"
NoProfile == [homeSchool |-> Absent, visaStatus |-> Absent, declaredPrograms |-> Absent]
NoReport == [labels |-> {}, declared |-> Absent, kind |-> Absent]
NoRow == [profile |-> NoProfile, report |-> NoReport]
NoEntry == [field |-> Absent, after |-> Absent, by |-> 0]
ProfileFields == {"homeSchool", "visaStatus", "declaredPrograms"}
VisaStatuses == {"f1", "domestic", "other"}
SchoolLadder == <<"steinhardt", "tisch", "cas", "tandon", "stern", "gallatin", "liberal_studies", "sps">>
SchoolCodes == Range(SchoolLadder) \union {"shanghai", "nyuad", "silver"}

\* What is stored at the start is what this code stores: a whole profile with
\* its programs, and a report only when it is a real one.
IsProfile(p) == p = [homeSchool |-> p.homeSchool, visaStatus |-> p.visaStatus,
                     declaredPrograms |-> p.declaredPrograms]
StoredByUs(stored) ==
  /\ stored.profile # NoProfile => IsProfile(stored.profile) /\ stored.profile.declaredPrograms # Absent
  /\ stored.report # NoReport => stored.report.kind = "dpr"

ASSUME ProfileAssumption ==
  /\ Refresher \notin Chats
  /\ \A a \in NewValues : a.field \in ProfileFields
  /\ \A stored \in StoredRows : StoredByUs(stored)

-----------------------------------------------------------------------------
DeriveHomeSchool(report) ==
  LET hits == SelectSeq(SchoolLadder, LAMBDA s : s \in report.labels)
  IN IF hits = <<>> THEN "unknown" ELSE Head(hits)

DeriveDeclaredPrograms(report) == IF report.declared = Absent THEN "unknown_major" ELSE report.declared

\* A school of the request counts only when the report shows none.
ValidatedHomeSchool(body) ==
  IF DeriveHomeSchool(body.report) = "unknown" /\ body.home \in SchoolCodes THEN body.home ELSE Absent

BuildStudentProfile(report, visa, home) ==
  [homeSchool |-> IF home # Absent THEN home ELSE DeriveHomeSchool(report),
   visaStatus |-> IF visa \in {"f1", "domestic"} THEN visa ELSE "domestic",
   declaredPrograms |-> DeriveDeclaredPrograms(report)]

\* What the stored profile overrides: all that the request did not send.
Merged(student, stored, body) ==
  [homeSchool |-> IF body.home = Absent THEN stored.homeSchool ELSE student.homeSchool,
   visaStatus |-> IF body.visa \in VisaStatuses THEN student.visaStatus ELSE stored.visaStatus,
   declaredPrograms |-> IF stored.declaredPrograms = Absent THEN student.declaredPrograms
                        ELSE stored.declaredPrograms]

-----------------------------------------------------------------------------
\* persistMutation: the whole profile, the report when one is passed, and an
\* audit row, in one transaction; a report that is no real one is refused.
PersistMutation(profile, field, after, report, who) ==
  /\ report # NoReport => report.kind = "dpr"
  /\ row' = [profile |-> profile, report |-> IF report = NoReport THEN row.report ELSE report]
  /\ entry' = [field |-> field, after |-> after, by |-> who]

Refused(report) == report # NoReport /\ report.kind # "dpr"

\* The step of turn t that stores its profile: it works, and the turn knows
\* what is stored, or it fails and the turn goes on without a word.
Stores(t, profile, field, after, report, rest) ==
  \/ /\ PersistMutation(profile, field, after, report, t)
     /\ chat' = [chat EXCEPT ![t] = [rest EXCEPT !.knows = profile]]
  \/ /\ UNCHANGED <<row, entry>>
     /\ chat' = [chat EXCEPT ![t] = [rest EXCEPT !.knows = IF Refused(report) THEN rest.knows ELSE NoProfile]]

Goes(t, rest) == chat' = [chat EXCEPT ![t] = rest] /\ UNCHANGED <<row, entry>>

-----------------------------------------------------------------------------
NoTurn == [at |-> "idle", body |-> [home |-> Absent, visa |-> Absent, report |-> NoReport],
           student |-> NoProfile, persisted |-> NoProfile, staged |-> {}, asks |-> 0, knows |-> NoProfile]

\* POST: the report was validated, the profile is built from it.
TurnStarts(t, body) ==
  /\ chat[t].at = "idle" /\ rounds < MaxRounds
  /\ rounds' = rounds + 1
  /\ Goes(t, [NoTurn EXCEPT !.at = "readBack", !.body = body,
       !.student = BuildStudentProfile(body.report, body.visa, ValidatedHomeSchool(body))])
  /\ UNCHANGED refresh

ReadBack(t) ==
  LET T == chat[t] IN
  /\ T.at = "readBack"
  /\ \/ Goes(t, [T EXCEPT !.at = "bootstrap", !.persisted = row.profile, !.knows = row.profile,
          !.student = IF row.profile = NoProfile THEN @ ELSE Merged(@, row.profile, T.body)])
     \/ Goes(t, [T EXCEPT !.at = "bootstrap"])            \* the read fails
  /\ UNCHANGED <<refresh, rounds>>

\* The second read decides whether this is the first request of the student.
BootstrapReads(t) ==
  LET T == chat[t] IN
  /\ T.at = "bootstrap"
  /\ \/ Goes(t, [T EXCEPT !.at = IF row.profile = NoProfile THEN "bootstrapWrite" ELSE "home"])
     \/ Goes(t, [T EXCEPT !.at = "home"])
  /\ UNCHANGED <<refresh, rounds>>

BootstrapWrites(t) ==
  LET T == chat[t] IN
  /\ T.at = "bootstrapWrite"
  /\ Stores(t, T.student, "homeSchool", T.student.homeSchool, T.body.report, [T EXCEPT !.at = "home"])
  /\ UNCHANGED <<refresh, rounds>>

PersistHomeChange(t) ==
  LET T == chat[t]
      home == ValidatedHomeSchool(T.body)
      next == [T EXCEPT !.at = "visa"]
  IN
  /\ T.at = "home"
  /\ IF home # Absent /\ T.persisted # NoProfile /\ T.persisted.homeSchool # home
     THEN Stores(t, T.student, "homeSchool", home, NoReport, next)
     ELSE Goes(t, next)
  /\ UNCHANGED <<refresh, rounds>>

\* (A plausible bug: the value of the request is not put into the profile.)
ThreadVisaDropped(student, visa) == student
ThreadVisa(student, visa) == [student EXCEPT !.visaStatus = visa]

PersistVisaChange(t) ==
  LET T == chat[t]
      student == ThreadVisa(T.student, T.body.visa)
  IN
  /\ T.at = "visa"
  /\ IF T.body.visa \in VisaStatuses /\ T.persisted # NoProfile /\ T.persisted.visaStatus # T.body.visa
     THEN Stores(t, student, "visaStatus", T.body.visa, NoReport, [T EXCEPT !.at = "agent", !.student = student])
     ELSE Goes(t, [T EXCEPT !.at = "agent"])
  /\ UNCHANGED <<refresh, rounds>>

-----------------------------------------------------------------------------
\* A field that the report shows is not staged with another value.
Stageable(student, ask) == ask.field = "declaredPrograms" => ask.value = student.declaredPrograms

\* update_profile: the preview lives in the session of this request only.
UpdateProfile(t, ask) ==
  /\ chat[t].at = "agent" /\ Stageable(chat[t].student, ask)
  /\ chat[t].asks < MaxAsks
  /\ Goes(t, [chat[t] EXCEPT !.staged = @ \union {ask}, !.asks = @ + 1])
  /\ UNCHANGED <<refresh, rounds>>

\* confirm_profile_update: the profile of the session changes first, the
\* preview is used up, and a store that fails changes neither.
ConfirmProfileUpdate(t, ask) ==
  LET T == chat[t]
      student == [T.student EXCEPT ![ask.field] = ask.value]
  IN
  /\ T.at = "agent" /\ ask \in T.staged
  /\ Stores(t, student, ask.field, ask.value, T.body.report,
            [T EXCEPT !.student = student, !.staged = @ \ {ask}])
  /\ UNCHANGED <<refresh, rounds>>

TurnEnds(t) ==
  /\ chat[t].at = "agent"
  /\ Goes(t, NoTurn)
  /\ UNCHANGED <<refresh, rounds>>

-----------------------------------------------------------------------------
\* refresh-dpr: the stored profile is read and stored again with the new
\* report; a read that fails counts as no profile.
NoRefresh == [at |-> "idle", profile |-> NoProfile, report |-> NoReport, read |-> NoProfile]
RefreshReads(report) ==
  /\ refresh.at = "idle" /\ rounds < MaxRounds
  /\ rounds' = rounds + 1
  /\ \E read \in {row.profile, NoProfile} :
       refresh' = [at |-> "write", report |-> report, read |-> read,
                   profile |-> IF read = NoProfile THEN BuildStudentProfile(report, Absent, Absent) ELSE read]
  /\ UNCHANGED <<row, entry, chat>>

RefreshWrites ==
  /\ refresh.at = "write"
  /\ \/ PersistMutation(refresh.profile, "dpr_refresh", Absent, refresh.report, Refresher)
     \/ UNCHANGED <<row, entry>>
  /\ refresh' = NoRefresh
  /\ UNCHANGED <<chat, rounds>>

AccountGone ==
  /\ row.profile # NoProfile /\ rounds < MaxRounds
  /\ rounds' = rounds + 1
  /\ row' = NoRow
  /\ entry' = NoEntry
  /\ UNCHANGED <<chat, refresh>>

ProfileInit ==
  /\ row \in StoredRows
  /\ entry = NoEntry
  /\ chat = [t \in Chats |-> NoTurn]
  /\ refresh = NoRefresh
  /\ rounds = 0

ProfileNext ==
  \/ \E t \in Chats, b \in Bodies : TurnStarts(t, b)
  \/ \E t \in Chats : ReadBack(t) \/ BootstrapReads(t) \/ BootstrapWrites(t)
  \/ \E t \in Chats : PersistHomeChange(t) \/ PersistVisaChange(t) \/ TurnEnds(t)
  \/ \E t \in Chats, a \in NewValues : UpdateProfile(t, a) \/ ConfirmProfileUpdate(t, a)
  \/ \E r \in Uploads : RefreshReads(r)
  \/ RefreshWrites
  \/ AccountGone

ProfileSpec == ProfileInit /\ [][ProfileNext]_profileVars

-----------------------------------------------------------------------------
\* Nobody stored anything since the turn last read or stored the profile,
\* and none of its calls has failed since.
UpToDate(t) == chat[t].knows = row.profile

SentItself(t) == (IF chat[t].body.home = Absent THEN {} ELSE {"homeSchool"})
                   \union (IF chat[t].body.visa \in VisaStatuses THEN {"visaStatus"} ELSE {})

\* A stored profile changes only as the audit log tells: the field of the
\* newest audit row has the value of that row; and when a turn that knows what
\* is stored stores it, no other field changes unless the request itself has
\* sent it. A refresh changes nothing of a profile it could read, and the
\* snapshot of the report is never a what-if. (persistMutation writes every
\* field, from four places, whatever the audit row names.)
ChangesAreAudited ==
  [][/\ row.profile # NoProfile /\ row'.profile # NoProfile /\ entry' # entry =>
          /\ entry'.field \in ProfileFields => row'.profile[entry'.field] = entry'.after
          /\ \A t \in Chats : entry'.by = t /\ UpToDate(t) =>
               \A f \in ProfileFields \ ({entry'.field} \union SentItself(t)) :
                 row'.profile[f] = row.profile[f]
          /\ entry'.by = Refresher /\ refresh.read = row.profile => row'.profile = row.profile
     /\ row'.report # NoReport => row'.report.kind = "dpr"]_profileVars
=============================================================================
