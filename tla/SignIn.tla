------------------------------- MODULE SignIn -------------------------------
(***************************************************************************)
(* Signing in with a one-time code, and the daily quota in front of it:     *)
(*   lib/auth/otp.ts      issueOtp, verifyOtp                               *)
(*   lib/auth/session.ts  the session cookie                                *)
(*   lib/rateLimit.ts     consumeRequest                                    *)
(* Rows of email_otps live in the database, buckets in the memory of the    *)
(* process: a restart empties the buckets and ends the running requests.    *)
(* verifyOtp reads a row, marks it and upserts the student in three         *)
(* statements without a transaction, so verifications interleave there.     *)
(***************************************************************************)
EXTENDS Integers, Sequences, FiniteSets

CONSTANTS
  Mails,        \* addresses students type in
  Allowed,      \* those isAllowedEmail lets through
  Ips,          \* callers, as ipKey tells them apart
  IssueLimit,   \* OTP_LIMIT_PER_DAY
  OtpTtl,       \* OTP_TTL_MS, in ticks
  DayLength,    \* WINDOW_MS, in ticks
  MaxTick,      \* bound: how far the clock runs
  MaxRows,      \* bound: codes issued
  Verifiers     \* bound: verifications at a time

ASSUME SignInAssumption ==
  /\ Allowed \subseteq Mails
  /\ IssueLimit \in Nat \ {0}
  /\ DayLength \in Nat \ {0}
  /\ {OtpTtl, MaxTick, MaxRows} \subseteq Nat

VARIABLES
  tick,       \* Date.now()
  otps,       \* email_otps in the order of issuedAt: [mail, expires, consumed]
  inbox,      \* indices of the rows whose code reached its reader
  buckets,    \* rateLimit.ts: per ip [count, windowStart], count 0 is no bucket
  verifying,  \* per verifier: the row it read, 0 when idle, and whether it marked it
  cookie,     \* addresses whose browser holds a session cookie
  redeemed,   \* history: codes whose verification was answered with a session
  served      \* history: codes issued, per ip, day and life of the process

signInVars == <<tick, otps, inbox, buckets, verifying, cookie, redeemed, served>>

NoVerification == [row |-> 0, marked |-> FALSE, late |-> FALSE]

SignInInit ==
  /\ tick = 0
  /\ otps = <<>>
  /\ inbox = {}
  /\ buckets = [i \in Ips |-> [count |-> 0, windowStart |-> 0]]
  /\ verifying = [v \in Verifiers |-> NoVerification]
  /\ cookie = {}
  /\ redeemed = {}
  /\ served = [i \in Ips |-> 0]

-----------------------------------------------------------------------------
(* rateLimit.ts *)

WindowStart(t) == t - (t % DayLength)

\* ConsumeRequestUnreset forgets that yesterday's count is yesterday's only when
\* today's first request comes: it opens a new window on every request.
ConsumeRequestUnreset(b, t) ==
  IF b.count = 0 \/ b.windowStart <= WindowStart(t)
  THEN [ok |-> TRUE, bucket |-> [count |-> 1, windowStart |-> WindowStart(t)]]
  ELSE [ok |-> b.count < IssueLimit, bucket |-> [b EXCEPT !.count = @ + 1]]

\* What consumeRequest answers and the bucket it leaves.
ConsumeRequest(b, t) ==
  IF b.count = 0 \/ b.windowStart < WindowStart(t)
  THEN [ok |-> TRUE, bucket |-> [count |-> 1, windowStart |-> WindowStart(t)]]
  ELSE IF b.count >= IssueLimit
       THEN [ok |-> FALSE, bucket |-> b]
       ELSE [ok |-> TRUE, bucket |-> [b EXCEPT !.count = @ + 1]]

-----------------------------------------------------------------------------
(* otp.ts *)

\* POST /api/auth/otp/issue: the quota is spent before the address is looked at,
\* and the row is written before the mail is sent, so a mail that does not go out
\* leaves a row behind all the same.
IssueCode(ip, mail) ==
  LET answer == ConsumeRequest(buckets[ip], tick) IN
  /\ Len(otps) < MaxRows
  /\ buckets' = [buckets EXCEPT ![ip] = answer.bucket]
  /\ IF answer.ok /\ mail \in Allowed
     THEN /\ otps' = Append(otps, [mail |-> mail, expires |-> tick + OtpTtl, consumed |-> FALSE])
          /\ inbox' \in {inbox, inbox \union {Len(otps) + 1}}
     ELSE UNCHANGED <<otps, inbox>>
  /\ served' = [served EXCEPT ![ip] = IF answer.ok THEN @ + 1 ELSE @]
  /\ UNCHANGED <<tick, verifying, cookie, redeemed>>

Live(i) == ~otps[i].consumed /\ otps[i].expires > tick

\* The row the select of verifyOtp finds: the newest one that is neither
\* consumed nor expired, 0 when there is none. NewestRow also takes consumed ones.
NewestRow(mail) ==
  LET own == {i \in DOMAIN otps : otps[i].mail = mail /\ otps[i].expires > tick}
  IN  CHOOSE i \in own \union {0} : \A j \in own : j <= i

PendingRow(mail) ==
  LET own == {i \in DOMAIN otps : otps[i].mail = mail /\ Live(i)}
  IN  CHOOSE i \in own \union {0} : \A j \in own : j <= i

\* verifyOtp reads a row and compares its code with one the student was sent. A
\* code of another row does not match, and nothing is written then.
VerifyRead(v, code) ==
  /\ verifying[v].row = 0
  /\ code \in inbox
  /\ PendingRow(otps[code].mail) = code
  /\ verifying' = [verifying EXCEPT ![v] = [row |-> code, marked |-> FALSE, late |-> code \in redeemed]]
  /\ UNCHANGED <<tick, otps, inbox, buckets, cookie, redeemed, served>>

\* The update by (email, issuedAt): it asks no more whether the row is free.
VerifyConsume(v) ==
  /\ verifying[v].row # 0
  /\ ~verifying[v].marked
  /\ otps' = [otps EXCEPT ![verifying[v].row].consumed = TRUE]
  /\ verifying' = [verifying EXCEPT ![v].marked = TRUE]
  /\ UNCHANGED <<tick, inbox, buckets, cookie, redeemed, served>>

\* The upsert of the student (read by nobody here), the signed token and
\* setSessionCookie. Without a SECRET_KEY the answer is db_unavailable, the code is used up all the same.
VerifyAnswer(v, signed) ==
  LET mail == otps[verifying[v].row].mail IN
  /\ verifying[v].marked
  /\ IF signed
     THEN /\ cookie' = cookie \union {mail}
          /\ redeemed' = redeemed \union {verifying[v].row}
     ELSE UNCHANGED <<cookie, redeemed>>
  /\ verifying' = [verifying EXCEPT ![v] = NoVerification]
  /\ UNCHANGED <<tick, otps, inbox, buckets, served>>

\* POST /api/auth/logout clears the cookie and nothing else.
Logout(mail) ==
  /\ mail \in cookie
  /\ cookie' = cookie \ {mail}
  /\ UNCHANGED <<tick, otps, inbox, buckets, verifying, redeemed, served>>

\* Time passes; at midnight UTC a new day begins for the history.
TimePasses ==
  /\ tick < MaxTick
  /\ tick' = tick + 1
  /\ served' = IF WindowStart(tick + 1) > WindowStart(tick) THEN [i \in Ips |-> 0] ELSE served
  /\ UNCHANGED <<otps, inbox, buckets, verifying, cookie, redeemed>>

\* The process restarts: what it held in memory is gone, what it had written stays.
ServerRestarts ==
  /\ buckets' = [i \in Ips |-> [count |-> 0, windowStart |-> 0]]
  /\ verifying' = [v \in Verifiers |-> NoVerification]
  /\ served' = [i \in Ips |-> 0]
  /\ UNCHANGED <<tick, otps, inbox, cookie, redeemed>>

SignInNext ==
  \/ \E ip \in Ips, mail \in Mails : IssueCode(ip, mail)
  \/ \E v \in Verifiers : \E code \in inbox : VerifyRead(v, code)
  \/ \E v \in Verifiers : VerifyConsume(v)
  \/ \E v \in Verifiers : \E signed \in BOOLEAN : VerifyAnswer(v, signed)
  \/ \E mail \in Mails : Logout(mail)
  \/ TimePasses
  \/ ServerRestarts

SignInSpec == SignInInit /\ [][SignInNext]_signInVars

-----------------------------------------------------------------------------
SignInTypeOK ==
  /\ tick \in Nat
  /\ otps \in Seq([mail : Mails, expires : Nat, consumed : BOOLEAN])
  /\ inbox \subseteq DOMAIN otps
  /\ buckets \in [Ips -> [count : Nat, windowStart : Nat]]
  /\ verifying \in [Verifiers -> [row : {0} \union DOMAIN otps, marked : BOOLEAN, late : BOOLEAN]]
  /\ cookie \subseteq Mails
  /\ redeemed \subseteq DOMAIN otps
  /\ served \in [Ips -> Nat]

\* A code that brought a session once starts no second one: two sessions come
\* from one code only when both verifications had read it before either was
\* answered, whatever newer or older codes, restarts and expiries lie between
\* (otp.ts:11-12, the statements at 125-150).
RedeemedCodeStaysDead == \A v \in Verifiers : ~verifying[v].late

\* In one UTC day and one life of the process every caller gets the codes of its
\* quota, no more and no fewer, also when the day turns between its requests: who
\* was served less is not turned away because of what an earlier day counted
\* (rateLimit.ts:63-97).
DailyQuota ==
  \A ip \in Ips :
    /\ served[ip] <= IssueLimit
    /\ served[ip] < IssueLimit => ConsumeRequest(buckets[ip], tick).ok
=============================================================================
