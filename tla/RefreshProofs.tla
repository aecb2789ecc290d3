---------------------------- MODULE RefreshProofs ----------------------------
(***************************************************************************)
(* What the client of the wall promises: a refresh says nothing of its      *)
(* snapshot that is not so, and the refresh that was switched off stays off. *)
(***************************************************************************)
EXTENDS ClientRefresh, RefreshAgent, SequenceTheorems, TLAPS

-----------------------------------------------------------------------------
(* The refresh. *)

\* The codes that a decision to upload can have: it never claims that GitHub
\* shows the snapshot.
UploadCodes == {"PUBLISHED", "DATE_ROLLOVER", "WAITING_COOLDOWN"}

\* Between its decision and its end a refresh keeps the code it decided on.
Decided ==
    /\ proc = [p \in Refreshers |-> proc[p]]
    /\ \A p \in Refreshers :
         /\ proc[p] = [pc |-> proc[p].pc, snap |-> proc[p].snap, decision |-> proc[p].decision]
         /\ proc[p].pc \in {"put", "check"} => proc[p].decision.code \in UploadCodes

\* The five answers of the policy.
LEMMA Answers ==
    ASSUME NEW in
    PROVE  DecidePublication(in).action
             \in {"PUBLISH_NOW", "WAIT_UNTIL", "RETRY_PENDING", "BLOCKED", "NO_CHANGE"}
  BY DEF DecidePublication, Decision

\* A decision is an upload, or the claim that the snapshot is stored, or neither.
LEMMA DecisionCodes ==
    ASSUME NEW snap
    PROVE  /\ DecideRefresh(snap).publish => DecideRefresh(snap).code \in UploadCodes
           /\ ~DecideRefresh(snap).publish /\ DecideRefresh(snap).code \in UploadCodes
                => accepted = snap
           /\ DecideRefresh(snap).code # "VERIFIED"
  <1> DEFINE pub == DecidePublication(Asked(snap, accepted, EnvelopePending, FALSE))
  <1>1. pub.action \in {"PUBLISH_NOW", "WAIT_UNTIL", "RETRY_PENDING", "BLOCKED", "NO_CHANGE"}
    BY Answers
  <1>2. DecideRefresh(snap)
          = LET Out(publish, code) == [publish |-> publish, action |-> pub.action, code |-> code]
            IN CASE pub.action = "PUBLISH_NOW" ->
                      Out(TRUE, IF pub.reason = "date" THEN "DATE_ROLLOVER" ELSE "PUBLISHED")
                 [] pub.action = "WAIT_UNTIL"    -> Out(accepted # snap, "WAITING_COOLDOWN")
                 [] pub.action = "RETRY_PENDING" -> Out(FALSE, "PENDING_GITHUB")
                 [] pub.action = "BLOCKED"       ->
                      Out(FALSE, IF pub.reason = "negative" THEN "BLOCKED_REGRESSION" ELSE "BLOCKED_DATA")
                 [] pub.action = "NO_CHANGE"     -> Out(FALSE, "SKIPPED_DELTA")
    BY Zenon DEF DecideRefresh
  <1> HIDE DEF pub
  <1>3. CASE pub.action = "PUBLISH_NOW"
    BY <1>2, <1>3 DEF UploadCodes
  <1>4. CASE pub.action = "WAIT_UNTIL"
    <2>1. CASE accepted = snap
      <3>1. (accepted # snap) = FALSE
        BY <2>1
      <3>2. DecideRefresh(snap) = [publish |-> FALSE, action |-> pub.action, code |-> "WAITING_COOLDOWN"]
        BY <1>2, <1>4, <3>1
      <3> QED BY <2>1, <3>2
    <2>2. CASE accepted # snap
      <3>1. (accepted # snap) = TRUE
        BY <2>2
      <3>2. DecideRefresh(snap) = [publish |-> TRUE, action |-> pub.action, code |-> "WAITING_COOLDOWN"]
        BY <1>2, <1>4, <3>1
      <3> QED BY <3>2 DEF UploadCodes
    <2> QED BY <2>1, <2>2
  <1>5. CASE pub.action = "RETRY_PENDING"
    BY <1>2, <1>5 DEF UploadCodes
  <1>6. CASE pub.action = "BLOCKED"
    BY <1>2, <1>6 DEF UploadCodes
  <1>7. CASE pub.action = "NO_CHANGE"
    BY <1>2, <1>7 DEF UploadCodes
  <1> QED BY <1>1, <1>3, <1>4, <1>5, <1>6, <1>7

\* What the server answers.
Refusals == {"refused", "regression", "coverage"}
Answered == Refusals \cup {"materialized", "pending", "deferred", "blocked", "coalesced"}

\* A snapshot that is considered is stored, and "materialized" says that GitHub
\* shows it.
LEMMA ConsideredIsStored ==
    ASSUME NEW snap, NEW outcome \in Considered(snap, FALSE)
    PROVE  /\ outcome.readme \in Answered
           /\ outcome.accepted = snap
           /\ outcome.readme = "materialized" => outcome.shown = snap
  <1> DEFINE decision == DecidePublication(Asked(snap, snap, PendingFor(snap), FALSE))
             Outcome(readme, wall, mark) ==
                 [readme |-> readme, accepted |-> snap, shown |-> wall, intent |-> mark]
             readme == CASE decision.action = "WAIT_UNTIL" -> "pending"
                         [] decision.action = "BLOCKED"    -> "blocked"
                         [] OTHER                          -> "coalesced"
             mark == Unpublished(decision, snap)
  <1>1. Considered(snap, FALSE)
          = IF decision.action = "PUBLISH_NOW"
            THEN {Outcome("materialized", snap, Applied), Outcome("deferred", shown, notePublishFailure)}
            ELSE {Outcome(readme, shown, mark)}
    BY Zenon DEF Considered
  <1>2. readme \in {"pending", "blocked", "coalesced"}
    OBVIOUS
  <1> HIDE DEF decision, readme, mark
  <1>3. \/ outcome = Outcome("materialized", snap, Applied)
        \/ outcome = Outcome("deferred", shown, notePublishFailure)
        \/ outcome = Outcome(readme, shown, mark)
    BY <1>1
  <1> QED BY <1>2, <1>3 DEF Answered

\* An answer that is not a refusal is about a snapshot that was stored.
LEMMA AnswersAreTrue ==
    ASSUME NEW snap, NEW outcome \in Handled(snap)
    PROVE  /\ outcome.readme \in Answered
           /\ outcome.readme \notin Refusals => outcome.accepted = snap
           /\ outcome.readme = "materialized" => outcome.shown = snap
  <1>1. Kept(snap) \in {"", "regression", "coverage"}
    BY DEF Kept
  <1>2. CASE snap \in refused
    <2>1. outcome = [readme |-> "refused", accepted |-> accepted, shown |-> shown, intent |-> intent]
      BY <1>2 DEF Handled
    <2> QED BY <2>1 DEF Answered, Refusals
  <1>3. CASE snap \notin refused /\ Kept(snap) # ""
    <2>1. Handled(snap) = {[readme |-> Kept(snap), accepted |-> accepted, shown |-> shown,
                            intent |-> intent]}
      BY <1>3, Zenon DEF Handled
    <2>2. outcome = [readme |-> Kept(snap), accepted |-> accepted, shown |-> shown,
                     intent |-> intent]
      BY <2>1
    <2>3. outcome.readme \in {"regression", "coverage"}
      BY <1>1, <1>3, <2>2
    <2> QED BY <2>3 DEF Answered, Refusals
  <1>4. CASE snap \notin refused /\ Kept(snap) = ""
    <2>1. outcome \in Considered(snap, FALSE)
      BY <1>4 DEF Handled
    <2> QED BY <2>1, ConsideredIsStored
  <1> QED BY <1>2, <1>3, <1>4

\* What a refresh says of an answer claims no more than the answer does.
LEMMA CodesAreAnswers ==
    ASSUME NEW decision, decision.code \in UploadCodes, NEW answer \in Answered
    PROVE  /\ CodeOf(decision, answer) = "VERIFIED" => answer = "materialized"
           /\ CodeOf(decision, answer) \in UploadCodes => answer \notin Refusals
  BY DEF CodeOf, decisionAfterPut, UploadCodes, Answered, Refusals

-----------------------------------------------------------------------------
\* What is claimed of the snapshot of a refresh after a step.
Claim(code, snap) ==
    /\ code \in UploadCodes => snap = accepted'
    /\ code = "VERIFIED" => snap = shown'

LEMMA FetchClaims ==
    ASSUME Decided, NEW p \in Refreshers, Fetch(p), said' # said
    PROVE  Claim(said'.code, said'.snap)
  <1> DEFINE snap == proc[p].snap
             decision == DecideRefresh(snap)
  <1>1. \/ ~decision.publish /\ End(p, decision.code)
        \/ decision.publish /\ accepted = snap /\ End(p, AlreadyStored(decision, snap))
    BY DEF Fetch
  <1>2. accepted' = accepted
    BY DEF Fetch, serverVars
  <1>3. /\ decision.code # "VERIFIED"
        /\ ~decision.publish /\ decision.code \in UploadCodes => accepted = snap
    BY DecisionCodes
  <1>4. AlreadyStored(decision, snap) # "VERIFIED"
    BY <1>3 DEF AlreadyStored
  <1> HIDE DEF decision
  <1> QED BY <1>1, <1>2, <1>3, <1>4 DEF End, Claim

LEMMA PutClaims ==
    ASSUME Decided, NEW p \in Refreshers, Put(p)
    PROVE  Claim(said'.code, said'.snap)
  <1>1. PICK outcome \in Handled(proc[p].snap) :
          Becomes(outcome) /\ End(p, CodeOf(proc[p].decision, outcome.readme))
    BY DEF Put
  <1>2. proc[p].decision.code \in UploadCodes
    BY DEF Decided, Put
  <1>3. /\ outcome.readme \in Answered
        /\ outcome.readme \notin Refusals => accepted' = proc[p].snap
        /\ outcome.readme = "materialized" => shown' = proc[p].snap
    BY <1>1, AnswersAreTrue DEF Becomes
  <1> DEFINE code == CodeOf(proc[p].decision, outcome.readme)
  <1>4. /\ code = "VERIFIED" => outcome.readme = "materialized"
        /\ code \in UploadCodes => outcome.readme \notin Refusals
    BY <1>2, <1>3, CodesAreAnswers
  <1>5. said'.code = code /\ said'.snap = proc[p].snap
    BY <1>1 DEF End
  <1> HIDE DEF code
  <1> QED BY <1>3, <1>4, <1>5 DEF Claim

LEMMA CheckClaims ==
    ASSUME Decided, NEW p \in Refreshers, Check(p)
    PROVE  Claim(said'.code, said'.snap)
  <1>1. accepted' = accepted
    BY DEF Check, serverVars
  <1>2. proc[p].decision.code \in UploadCodes
    BY DEF Decided, Check
  <1>3. CASE isStored(proc[p].snap) /\ End(p, proc[p].decision.code)
    BY <1>1, <1>2, <1>3 DEF isStored, End, Claim, UploadCodes
  <1>4. CASE End(p, "WILL_RETRY")
    BY <1>4 DEF End, Claim, UploadCodes
  <1> QED BY <1>3, <1>4 DEF Check

LEMMA StepClaims ==
    ASSUME Decided, ClientNext, said' # said
    PROVE  Claim(said'.code, said'.snap)
  <1>1. ASSUME NEW p \in Refreshers, Busy(p)
        PROVE  Claim(said'.code, said'.snap)
    BY <1>1 DEF Busy, Claim, UploadCodes
  <1>2. ASSUME NEW p \in Refreshers, FetchFails(p)
        PROVE  Claim(said'.code, said'.snap)
    BY <1>2 DEF FetchFails, End, Claim, UploadCodes
  <1>3. \E p \in Refreshers : Busy(p) \/ Fetch(p) \/ FetchFails(p) \/ Put(p) \/ Check(p)
    BY DEF ClientNext, Maintain, Begin, GiveUp, Killed, SyncScan, SyncUpload, Arrive,
           UseTokens, LastHours, Rollover
  <1> QED BY <1>1, <1>2, <1>3, FetchClaims, PutClaims, CheckClaims

LEMMA DecidedHolds ==
    ASSUME Decided, [ClientNext]_clientVars
    PROVE  Decided'
  <1>1. ASSUME NEW p \in Refreshers, Begin(p)
        PROVE  Decided'
    BY <1>1 DEF Decided, Begin, Resting
  <1>2. ASSUME NEW p \in Refreshers, NEW code, End(p, code)
        PROVE  Decided'
    BY <1>2 DEF Decided, End, Resting
  <1>3. ASSUME NEW p \in Refreshers, Fetch(p)
        PROVE  Decided'
    <2> DEFINE decision == DecideRefresh(proc[p].snap)
    <2>1. CASE End(p, decision.code) \/ End(p, AlreadyStored(decision, proc[p].snap))
      BY <1>2, <2>1
    <2>2. CASE ~(End(p, decision.code) \/ End(p, AlreadyStored(decision, proc[p].snap)))
      <3>1. decision.publish
        BY <1>3, <2>2, Zenon DEF Fetch
      <3>2. decision.code \in UploadCodes
        BY <3>1, DecisionCodes
      <3>3. proc' = [proc EXCEPT ![p].pc = "put", ![p].decision = decision]
        BY <1>3, <2>2, Zenon DEF Fetch
      <3> HIDE DEF decision
      <3>4. /\ proc' = [q \in Refreshers |-> proc'[q]]
            /\ \A q \in Refreshers \ {p} : proc'[q] = proc[q]
        BY <3>3 DEF Decided
      <3>5. proc'[p] = [[proc[p] EXCEPT !.pc = "put"] EXCEPT !.decision = decision]
        BY <3>3 DEF Decided
      <3>6. proc'[p] = [pc |-> "put", snap |-> proc[p].snap, decision |-> decision]
        BY <3>5 DEF Decided
      <3> QED BY <3>2, <3>4, <3>6 DEF Decided
    <2> QED BY <2>1, <2>2
  <1>4. ASSUME NEW p \in Refreshers, GiveUp(p)
        PROVE  Decided'
    BY <1>4 DEF Decided, GiveUp
  <1>5. ASSUME NEW p \in Refreshers, Killed(p)
        PROVE  Decided'
    BY <1>5 DEF Decided, Killed, Resting
  <1>6. ASSUME NEW p \in Refreshers, FetchFails(p) \/ Put(p) \/ Check(p)
        PROVE  Decided'
    <2>1. FetchFails(p) => \E code : End(p, code)
      BY DEF FetchFails
    <2>2. ASSUME Put(p)
          PROVE  \E code : End(p, code)
      <3>1. PICK outcome \in Handled(proc[p].snap) : End(p, CodeOf(proc[p].decision, outcome.readme))
        BY <2>2 DEF Put
      <3> QED BY <3>1
    <2>3. Check(p) => \E code : End(p, code)
      BY DEF Check
    <2> QED BY <1>2, <1>6, <2>1, <2>2, <2>3
  <1>7. CASE UNCHANGED proc
    BY <1>7 DEF Decided
  <1>8. \/ UNCHANGED proc
        \/ \E p \in Refreshers : Begin(p) \/ Fetch(p) \/ FetchFails(p) \/ Put(p) \/ GiveUp(p)
                                   \/ Check(p) \/ Killed(p)
    BY DEF ClientNext, clientVars, Maintain, Busy, SyncScan, SyncUpload, Arrive, UseTokens,
           LastHours, Rollover
  <1> QED BY <1>1, <1>3, <1>4, <1>5, <1>6, <1>7, <1>8

\* A refresh says of its snapshot only what is so when it says it, for every number
\* of refreshes, syncs and requests under way, however many of them are lost, late
\* or given up, whatever the server refuses, and at whatever hour.  The code that
\* an upload was decided with is what a lost answer leaves to say, and it never
\* claims more than that the snapshot is stored, which is asked again.
THEOREM RefreshTellsTheTruth == ClientSpec => SaidIsTrue
  <1>1. ASSUME ClientInit
        PROVE  Decided
    <2>1. proc = [p \in Refreshers |-> Resting]
      BY <1>1 DEF ClientInit
    <2>2. \A p \in Refreshers : proc[p] = Resting
      BY <2>1
    <2> QED BY <2>1, <2>2 DEF Decided, Resting
  <1>2. Decided /\ [ClientNext]_clientVars => Decided'
    BY DecidedHolds
  <1>3. Decided /\ [ClientNext]_clientVars
          => [said' # said =>
                /\ said'.code \in {"PUBLISHED", "DATE_ROLLOVER", "WAITING_COOLDOWN"} => said'.snap = accepted'
                /\ said'.code = "VERIFIED" => said'.snap = shown']_clientVars
    BY StepClaims DEF Claim, UploadCodes, clientVars
  <1> QED BY <1>1, <1>2, <1>3, PTL DEF ClientSpec, SaidIsTrue

-----------------------------------------------------------------------------
(* The agent.  What a doer has left to do is a sequence of calls: what matters *)
(* of it is whether the switch is turned on by one of them.                    *)

CallNames == {"on", "off", "read", "said", "stat", "need", "write", "remove", "bootout", "bootstrap", "repair"}
JobNames == {"switch", "watch", "health"}
Calls == [job : JobNames, call : CallNames, program : Nat]
Has(steps, call) == \E i \in 1..Len(steps) : steps[i].call = call

\* Off turns the switch off before anything else and never on; a repair never turns
\* it on, and never says that it is off.
OffFirst(steps) ==
    Has(steps, "said") => ~Has(steps, "on") /\ (steps[1].call = "off" \/ ~switch)

Quiet ==
    /\ program \in Nat
    /\ todo = [d \in Doers |-> todo[d]]
    /\ \A d \in Doers : todo[d] \in Seq(Calls)
    /\ stopped => ~switch /\ ~Has(todo["user"], "on")
    /\ ~Has(todo["health"], "on") /\ ~Has(todo["health"], "said")
    /\ OffFirst(todo["user"])

LEMMA HasOfConcat ==
    ASSUME NEW s \in Seq(Calls), NEW t \in Seq(Calls), NEW call
    PROVE  /\ s \o t \in Seq(Calls)
           /\ Has(s \o t, call) <=> Has(s, call) \/ Has(t, call)
  <1>1. /\ s \o t \in Seq(Calls) /\ Len(s) \in Nat /\ Len(t) \in Nat
        /\ Len(s \o t) = Len(s) + Len(t)
        /\ \A i \in 1 .. Len(s) + Len(t) : (s \o t)[i] = IF i <= Len(s) THEN s[i] ELSE t[i - Len(s)]
    BY ConcatProperties, LenProperties
  <1>2. ASSUME Has(s, call)
        PROVE  Has(s \o t, call)
    BY <1>1, <1>2 DEF Has
  <1>3. ASSUME Has(t, call)
        PROVE  Has(s \o t, call)
    <2>1. PICK i \in 1..Len(t) : t[i].call = call
      BY <1>3 DEF Has
    <2>2. /\ Len(s) + i \in 1..Len(s) + Len(t)
          /\ ~(Len(s) + i <= Len(s))
          /\ Len(s) + i - Len(s) = i
      BY <1>1
    <2>3. (s \o t)[Len(s) + i] = t[i]
      BY <1>1, <2>2
    <2> QED BY <1>1, <2>1, <2>2, <2>3 DEF Has
  <1>4. ASSUME Has(s \o t, call)
        PROVE  Has(s, call) \/ Has(t, call)
    <2>1. PICK i \in 1 .. Len(s) + Len(t) : (s \o t)[i].call = call
      BY <1>1, <1>4 DEF Has
    <2>2. CASE i <= Len(s)
      BY <1>1, <2>1, <2>2 DEF Has
    <2>3. CASE ~(i <= Len(s))
      <3>1. i - Len(s) \in 1..Len(t) /\ (s \o t)[i] = t[i - Len(s)]
        BY <1>1, <2>3
      <3> QED BY <2>1, <3>1 DEF Has
    <2> QED BY <2>2, <2>3
  <1> QED BY <1>1, <1>2, <1>3, <1>4

\* What is left of the calls has no call that was not there.
LEMMA HasOfRest ==
    ASSUME NEW s \in Seq(Calls), NEW t \in Seq(Calls),
           \A i \in 1..Len(t) : \E j \in 1..Len(s) : t[i] = s[j],
           NEW call, Has(t, call)
    PROVE  Has(s, call)
  BY DEF Has

LEMMA TailIsRest ==
    ASSUME NEW s \in Seq(Calls), s # <<>>
    PROVE  /\ Tail(s) \in Seq(Calls)
           /\ \A i \in 1..Len(Tail(s)) : \E j \in 1..Len(s) : Tail(s)[i] = s[j]
  <1>1. /\ Tail(s) \in Seq(Calls) /\ Len(s) \in Nat
        /\ Len(Tail(s)) = Len(s) - 1
        /\ \A i \in 1..Len(Tail(s)) : Tail(s)[i] = s[i + 1]
    BY HeadTailProperties, LenProperties
  <1>2. \A i \in 1..Len(Tail(s)) : i + 1 \in 1..Len(s)
    BY <1>1
  <1> QED BY <1>1, <1>2

LEMMA SubSeqIsRest ==
    ASSUME NEW s \in Seq(Calls), NEW m \in Nat \ {0}
    PROVE  /\ SubSeq(s, m, Len(s)) \in Seq(Calls)
           /\ \A i \in 1..Len(SubSeq(s, m, Len(s))) :
                \E j \in 1..Len(s) : SubSeq(s, m, Len(s))[i] = s[j]
  <1>1. Len(s) \in Nat /\ \A i \in 1..Len(s) : s[i] \in Calls
    BY LenProperties, ElementOfSeq
  <1>2. /\ SubSeq(s, m, Len(s)) \in Seq(Calls)
        /\ Len(SubSeq(s, m, Len(s))) = IF m <= Len(s) THEN Len(s) - m + 1 ELSE 0
        /\ \A i \in 1 .. Len(s) - m + 1 : SubSeq(s, m, Len(s))[i] = s[m + i - 1]
    BY <1>1, SubSeqProperties
  <1>3. \A i \in 1..Len(SubSeq(s, m, Len(s))) :
          i \in 1 .. Len(s) - m + 1 /\ m + i - 1 \in 1..Len(s)
    BY <1>1, <1>2
  <1> QED BY <1>2, <1>3

LEMMA HasOfSteps ==
    ASSUME program \in Nat, NEW job \in JobNames, NEW calls \in Seq(CallNames), NEW call
    PROVE  /\ Steps(job, calls) \in Seq(Calls)
           /\ Has(Steps(job, calls), call) <=> \E i \in 1..Len(calls) : calls[i] = call
  <1>1. Len(calls) \in Nat /\ \A i \in 1..Len(calls) : calls[i] \in CallNames
    BY LenProperties, ElementOfSeq
  <1>2. Steps(job, calls) \in Seq(Calls)
    BY <1>1, IsASeq DEF Steps, Step, Calls
  <1>3. Len(Steps(job, calls)) = Len(calls)
    BY <1>1, <1>2, LenProperties DEF Steps
  <1>4. \A i \in 1..Len(calls) : Steps(job, calls)[i].call = calls[i]
    BY DEF Steps, Step
  <1> QED BY <1>2, <1>3, <1>4 DEF Has

LEMMA HasOfThree ==
    ASSUME program \in Nat, NEW job \in JobNames, NEW call,
           NEW a \in CallNames, NEW b \in CallNames, NEW c \in CallNames
    PROVE  /\ Steps(job, <<a, b, c>>) \in Seq(Calls)
           /\ Has(Steps(job, <<a, b, c>>), call) => call \in {a, b, c}
  <1> DEFINE calls == <<a, b, c>>
  <1>1. calls \in Seq(CallNames)
    OBVIOUS
  <1>2. \A i \in 1..Len(calls) : calls[i] \in {a, b, c}
    OBVIOUS
  <1> HIDE DEF calls
  <1>3. /\ Steps(job, calls) \in Seq(Calls)
        /\ Has(Steps(job, calls), call) => call \in {a, b, c}
    BY <1>1, <1>2, HasOfSteps
  <1> QED BY <1>3 DEF calls

LEMMA HasOfFour ==
    ASSUME program \in Nat, NEW job \in JobNames, NEW call,
           NEW a \in CallNames, NEW b \in CallNames, NEW c \in CallNames, NEW d \in CallNames
    PROVE  /\ Steps(job, <<a, b, c, d>>) \in Seq(Calls)
           /\ Has(Steps(job, <<a, b, c, d>>), call) => call \in {a, b, c, d}
  <1> DEFINE calls == <<a, b, c, d>>
  <1>1. calls \in Seq(CallNames)
    OBVIOUS
  <1>2. \A i \in 1..Len(calls) : calls[i] \in {a, b, c, d}
    OBVIOUS
  <1> HIDE DEF calls
  <1>3. /\ Steps(job, calls) \in Seq(Calls)
        /\ Has(Steps(job, calls), call) => call \in {a, b, c, d}
    BY <1>1, <1>2, HasOfSteps
  <1> QED BY <1>3 DEF calls

LEMMA HasOfSwitch ==
    ASSUME program \in Nat, NEW c \in CallNames, NEW call
    PROVE  /\ Switch(c) \in Seq(Calls) /\ Len(Switch(c)) = 1 /\ Switch(c)[1].call = c
           /\ Has(Switch(c), call) <=> call = c
  BY DEF Switch, Step, Calls, JobNames, Has

\* A call that neither job and no switch makes is not in the command.
LEMMA HasOfBoth ==
    ASSUME NEW calls, NEW call,
           \A job \in JobNames :
             Steps(job, calls) \in Seq(Calls) /\ ~Has(Steps(job, calls), call)
    PROVE  ForBoth(calls) \in Seq(Calls) /\ ~Has(ForBoth(calls), call)
  <1>1. Jobs[1] \in JobNames /\ Jobs[2] \in JobNames
    BY DEF Jobs, JobNames
  <1> DEFINE s == Steps(Jobs[1], calls)
             t == Steps(Jobs[2], calls)
  <1>2. s \in Seq(Calls) /\ t \in Seq(Calls) /\ ~Has(s, call) /\ ~Has(t, call)
    BY <1>1
  <1> HIDE DEF s, t
  <1>3. s \o t \in Seq(Calls) /\ ~Has(s \o t, call)
    BY <1>2, HasOfConcat
  <1> QED BY <1>3 DEF ForBoth, s, t

LEMMA HasOfSwitched ==
    ASSUME program \in Nat, NEW c \in CallNames, NEW call, c # call,
           NEW t \in Seq(Calls), ~Has(t, call)
    PROVE  Switch(c) \o t \in Seq(Calls) /\ ~Has(Switch(c) \o t, call)
  BY HasOfSwitch, HasOfConcat

\* The calls that a command can have.
LEMMA CommandCalls ==
    ASSUME program \in Nat
    PROVE  /\ profileRefreshOff \in Seq(Calls) /\ profileRefreshOn \in Seq(Calls)
           /\ rebootstrapProfileRefresh \in Seq(Calls) /\ profileRefreshRepair \in Seq(Calls)
           /\ ~Has(profileRefreshOff, "on") /\ profileRefreshOff[1].call = "off"
           /\ ~Has(profileRefreshOn, "said")
           /\ ~Has(rebootstrapProfileRefresh, "said") /\ ~Has(rebootstrapProfileRefresh, "on")
           /\ ~Has(profileRefreshRepair, "said") /\ ~Has(profileRefreshRepair, "on")
  <1> DEFINE removal == <<"stat", "bootout", "remove">>
             install == <<"write", "bootout", "bootstrap">>
             repair == <<"need", "write", "bootout", "repair">>
  <1>1. {"read", "on", "off", "said", "stat", "bootout", "remove", "write", "bootstrap", "need",
         "repair"} \subseteq CallNames
    BY DEF CallNames
  <1>2. ForBoth(removal) \in Seq(Calls) /\ ~Has(ForBoth(removal), "on")
    <2>1. \A job \in JobNames :
            Steps(job, removal) \in Seq(Calls) /\ ~Has(Steps(job, removal), "on")
      BY <1>1, HasOfThree
    <2> HIDE DEF removal
    <2> QED BY <2>1, HasOfBoth
  <1>3. /\ ForBoth(install) \in Seq(Calls)
        /\ ~Has(ForBoth(install), "on") /\ ~Has(ForBoth(install), "said")
    <2>1. \A job \in JobNames :
            /\ Steps(job, install) \in Seq(Calls)
            /\ ~Has(Steps(job, install), "on") /\ ~Has(Steps(job, install), "said")
      BY <1>1, HasOfThree
    <2> HIDE DEF install
    <2> QED BY <2>1, HasOfBoth
  <1>4. /\ ForBoth(repair) \in Seq(Calls)
        /\ ~Has(ForBoth(repair), "on") /\ ~Has(ForBoth(repair), "said")
    <2>1. \A job \in JobNames :
            /\ Steps(job, repair) \in Seq(Calls)
            /\ ~Has(Steps(job, repair), "on") /\ ~Has(Steps(job, repair), "said")
      <3>1. ASSUME NEW job \in JobNames, NEW call
            PROVE  /\ Steps(job, repair) \in Seq(Calls)
                   /\ Has(Steps(job, repair), call) => call \in {"need", "write", "bootout", "repair"}
        BY <1>1, HasOfFour
      <3> HIDE DEF repair
      <3> QED BY <3>1
    <2> HIDE DEF repair
    <2> QED BY <2>1, HasOfBoth
  <1> HIDE DEF removal, install, repair
  <1>5. /\ profileRefreshOff \in Seq(Calls)
        /\ ~Has(profileRefreshOff, "on") /\ profileRefreshOff[1].call = "off"
    <2>1. /\ Switch("off") \in Seq(Calls) /\ Len(Switch("off")) = 1
          /\ Switch("off")[1].call = "off" /\ ~Has(Switch("off"), "on")
          /\ Switch("said") \in Seq(Calls) /\ ~Has(Switch("said"), "on")
      BY <1>1, HasOfSwitch
    <2>2. /\ Switch("off") \o ForBoth(removal) \in Seq(Calls)
          /\ ~Has(Switch("off") \o ForBoth(removal), "on")
      BY <1>2, <2>1, HasOfConcat
    <2>3. /\ (Switch("off") \o ForBoth(removal)) \o Switch("said") \in Seq(Calls)
          /\ ~Has((Switch("off") \o ForBoth(removal)) \o Switch("said"), "on")
      BY <2>1, <2>2, HasOfConcat
    <2>4. ((Switch("off") \o ForBoth(removal)) \o Switch("said"))[1].call = "off"
      <3>1. Len(Switch("off") \o ForBoth(removal)) >= 1
            /\ (Switch("off") \o ForBoth(removal))[1] = Switch("off")[1]
        BY <1>2, <2>1, ConcatProperties, LenProperties
      <3>2. ((Switch("off") \o ForBoth(removal)) \o Switch("said"))[1]
              = (Switch("off") \o ForBoth(removal))[1]
        BY <2>1, <2>2, <3>1, ConcatProperties, LenProperties
      <3> QED BY <2>1, <3>1, <3>2
    <2> QED BY <2>3, <2>4 DEF profileRefreshOff, removal
  <1>6. /\ profileRefreshOn \in Seq(Calls)
        /\ ~Has(profileRefreshOn, "said")
    <2>1. profileRefreshOn = Switch("on") \o ForBoth(install)
      BY DEF profileRefreshOn, install
    <2> QED BY <1>1, <1>3, <2>1, HasOfSwitched
  <1>7. /\ rebootstrapProfileRefresh \in Seq(Calls)
        /\ ~Has(rebootstrapProfileRefresh, "said") /\ ~Has(rebootstrapProfileRefresh, "on")
    <2>1. rebootstrapProfileRefresh = Switch("read") \o ForBoth(install)
      BY DEF rebootstrapProfileRefresh, install
    <2> QED BY <1>1, <1>3, <2>1, HasOfSwitched
  <1>8. /\ profileRefreshRepair \in Seq(Calls)
        /\ ~Has(profileRefreshRepair, "said") /\ ~Has(profileRefreshRepair, "on")
    <2>1. profileRefreshRepair = Switch("read") \o ForBoth(repair)
      BY DEF profileRefreshRepair, repair
    <2> QED BY <1>1, <1>4, <2>1, HasOfSwitched
  <1> QED BY <1>5, <1>6, <1>7, <1>8

-----------------------------------------------------------------------------
\* What a doer has left after a step is part of what it had, or a repair.
Fewer(t, s) ==
    /\ t \in Seq(Calls)
    /\ \A call \in {"on", "said"} : Has(t, call) => Has(s, call)

LEMMA FewerLeft ==
    ASSUME Quiet, NEW d \in Doers, todo[d] # <<>>
    PROVE  /\ Fewer(Rest(d), todo[d]) /\ Fewer(Skip(d), todo[d]) /\ Fewer(<<>>, todo[d])
           /\ Fewer(profileRefreshRepair, todo[d])
           /\ Has(todo[d], todo[d][1].call)
  <1>1. todo[d] \in Seq(Calls) /\ program \in Nat
    BY DEF Quiet
  <1>2. Fewer(Rest(d), todo[d])
    BY <1>1, TailIsRest, HasOfRest DEF Fewer, Rest
  <1>3. Fewer(Skip(d), todo[d])
    <2>1. (IF todo[d][1].call = "stat" THEN 4 ELSE 5) \in Nat \ {0}
      OBVIOUS
    <2>2. /\ Skip(d) \in Seq(Calls)
          /\ \A i \in 1..Len(Skip(d)) : \E j \in 1..Len(todo[d]) : Skip(d)[i] = todo[d][j]
      BY <1>1, <2>1, SubSeqIsRest DEF Skip
    <2> QED BY <1>1, <2>2, HasOfRest DEF Fewer
  <1>4. Fewer(<<>>, todo[d])
    BY EmptySeq DEF Fewer, Has
  <1>5. Fewer(profileRefreshRepair, todo[d])
    BY <1>1, CommandCalls DEF Fewer
  <1>6. Has(todo[d], todo[d][1].call)
    <2>1. Len(todo[d]) \in Nat \ {0}
      BY <1>1, EmptySeq
    <2> QED BY <2>1 DEF Has
  <1> QED BY <1>2, <1>3, <1>4, <1>5, <1>6

\* A step of one doer: the other has left what it had, or less; the switch turns
\* with the calls that turn it; and only "said" by the user says that it is off.
Moves(d) ==
    /\ todo' = [e \in Doers |-> todo'[e]]
    /\ \A e \in Doers : Fewer(todo'[e], todo[e])
    /\ d # "user" => todo'["user"] = todo["user"]
    /\ switch' = switch \/ todo[d][1].call = "on" \/ switch' = FALSE
    /\ todo[d][1].call = "off" => switch' = FALSE
    /\ stopped' = stopped \/ (d = "user" /\ stopped' = (todo[d][1].call = "said"))

LEMMA SameIsFewer ==
    ASSUME Quiet, NEW e \in Doers
    PROVE  Fewer(todo[e], todo[e])
  BY DEF Quiet, Fewer

LEMMA LeavesMoves ==
    ASSUME Quiet, NEW d \in Doers, NEW rest, Fewer(rest, todo[d]), Leaves(d, rest)
    PROVE  /\ todo' = [e \in Doers |-> todo'[e]]
           /\ \A e \in Doers : Fewer(todo'[e], todo[e])
           /\ d # "user" => todo'["user"] = todo["user"]
  <1>1. todo = [e \in Doers |-> todo[e]]
    BY DEF Quiet
  <1>2. /\ todo' = [e \in Doers |-> todo'[e]]
        /\ todo'[d] = rest
        /\ \A e \in Doers \ {d} : todo'[e] = todo[e]
    BY <1>1 DEF Leaves
  <1> QED BY <1>2, SameIsFewer DEF Doers

LEMMA DoMoves ==
    ASSUME Quiet, NEW d \in Doers, Do(d)
    PROVE  Moves(d)
  <1>0. todo[d] # <<>>
    BY DEF Do
  <1>f. /\ Fewer(Rest(d), todo[d]) /\ Fewer(Skip(d), todo[d]) /\ Fewer(<<>>, todo[d])
        /\ Fewer(profileRefreshRepair, todo[d])
    BY <1>0, FewerLeft
  <1>1. CASE SwitchCall(d)
    <2>1. PICK rest \in {<<>>, Rest(d)} : Leaves(d, rest)
      BY <1>1 DEF SwitchCall
    <2>2. /\ todo' = [e \in Doers |-> todo'[e]]
          /\ \A e \in Doers : Fewer(todo'[e], todo[e])
          /\ d # "user" => todo'["user"] = todo["user"]
      BY <1>f, <2>1, LeavesMoves
    <2> QED BY <1>1, <2>2 DEF SwitchCall, Moves
  <1>2. CASE FileCall(d)
    <2>1. PICK rest \in {Skip(d), Rest(d)} : Leaves(d, rest)
      BY <1>2 DEF FileCall
    <2>2. /\ todo' = [e \in Doers |-> todo'[e]]
          /\ \A e \in Doers : Fewer(todo'[e], todo[e])
          /\ d # "user" => todo'["user"] = todo["user"]
      BY <1>f, <2>1, LeavesMoves
    <2> QED BY <1>2, <2>2 DEF FileCall, Moves
  <1>3. CASE Bootout(d)
    <2>1. todo' = [e \in Doers |-> todo'[e]]
      BY <1>3 DEF Bootout
    <2>2. ASSUME NEW e \in Doers
          PROVE  todo'[e] \in {<<>>, todo[e]} \/ (e = d /\ todo'[e] = Rest(d))
      BY <1>3 DEF Bootout
    <2>3. ASSUME NEW e \in Doers
          PROVE  Fewer(todo'[e], todo[e])
      <3>1. Fewer(<<>>, todo[e])
        BY EmptySeq DEF Fewer, Has
      <3> QED BY <1>f, <2>2, <3>1, SameIsFewer
    <2>4. d # "user" => todo'["user"] = todo["user"]
      BY <1>3 DEF Bootout, Doers
    <2> QED BY <1>3, <2>1, <2>3, <2>4 DEF Bootout, Moves
  <1>4. CASE Bootstrap(d)
    <2>1. /\ todo[d][1].call \in {"bootstrap", "repair"}
          /\ UNCHANGED <<switch, stopped>>
      BY <1>4 DEF Bootstrap
    <2>2. CASE \E rest \in {<<>>, Rest(d)} : Leaves(d, rest)
      <3>1. PICK rest \in {<<>>, Rest(d)} : Leaves(d, rest)
        BY <2>2
      <3>2. /\ todo' = [e \in Doers |-> todo'[e]]
            /\ \A e \in Doers : Fewer(todo'[e], todo[e])
            /\ d # "user" => todo'["user"] = todo["user"]
        BY <1>f, <3>1, LeavesMoves
      <3> QED BY <2>1, <3>2 DEF Moves
    <2>3. CASE Started(todo[d][1].job, d)
      <3>1. todo' = [e \in Doers |-> todo'[e]]
        BY <2>3 DEF Started
      <3>2. ASSUME NEW e \in Doers
            PROVE  Fewer(todo'[e], todo[e])
        <4>1. \/ todo'[e] = profileRefreshRepair
              \/ e = d /\ todo'[e] = Rest(d)
              \/ todo'[e] = todo[e]
          BY <2>3 DEF Started
        <4>2. Fewer(profileRefreshRepair, todo[e])
          BY CommandCalls DEF Quiet, Fewer
        <4> QED BY <1>f, <4>1, <4>2, SameIsFewer
      <3>3. d # "user" => todo'["user"] = todo["user"]
        BY <2>3 DEF Started, Doers
      <3> QED BY <2>1, <3>1, <3>2, <3>3 DEF Moves
    <2>4. \/ \E rest \in {<<>>, Rest(d)} : Leaves(d, rest)
          \/ Started(todo[d][1].job, d)
      BY <1>4 DEF Bootstrap
    <2> QED BY <2>2, <2>3, <2>4
  <1> QED BY <1>1, <1>2, <1>3, <1>4 DEF Do

LEMMA DoQuiet ==
    ASSUME Quiet, NEW d \in Doers, Do(d)
    PROVE  Quiet'
  <1>1. Moves(d) /\ Has(todo[d], todo[d][1].call)
    BY DoMoves, FewerLeft DEF Do
  <1>2. program' = program
    BY DEF Do, SwitchCall, FileCall, Bootout, Bootstrap
  <1>3. "user" \in Doers /\ "health" \in Doers /\ d \in {"user", "health"}
    BY DEF Doers
  <1>4. \A e \in Doers, call \in {"on", "said"} : Has(todo'[e], call) => Has(todo[e], call)
    BY <1>1 DEF Moves, Fewer
  <1>5. /\ program' \in Nat
        /\ todo' = [e \in Doers |-> todo'[e]]
        /\ \A e \in Doers : todo'[e] \in Seq(Calls)
        /\ ~Has(todo'["health"], "on") /\ ~Has(todo'["health"], "said")
    BY <1>1, <1>2, <1>3, <1>4 DEF Moves, Fewer, Quiet
  \* Once "said" is next, the switch is off, and nothing turns it on.
  <1>6. todo[d][1].call = "on" => d = "user"
    BY <1>1, <1>3 DEF Quiet
  <1>7. stopped' => ~switch' /\ ~Has(todo'["user"], "on")
    <2>1. CASE stopped' = stopped
      BY <1>1, <1>3, <1>4, <1>6, <2>1 DEF Quiet, Moves
    <2>2. CASE d = "user" /\ stopped' = (todo[d][1].call = "said")
      BY <1>1, <1>3, <1>4, <2>2 DEF Quiet, OffFirst, Moves
    <2> QED BY <1>1, <2>1, <2>2 DEF Moves
  <1>8. OffFirst(todo["user"])'
    <2> SUFFICES ASSUME Has(todo'["user"], "said")
                 PROVE  /\ ~Has(todo'["user"], "on")
                        /\ todo'["user"][1].call = "off" \/ ~switch'
      BY DEF OffFirst
    <2>1. /\ Has(todo["user"], "said") /\ ~Has(todo["user"], "on")
          /\ todo["user"][1].call = "off" \/ ~switch
      BY <1>3, <1>4 DEF Quiet, OffFirst
    <2>2. CASE d = "user"
      BY <1>1, <1>3, <1>4, <2>1, <2>2 DEF Moves
    <2>3. CASE d # "user"
      BY <1>1, <1>3, <1>4, <1>6, <2>1, <2>3 DEF Moves
    <2> QED BY <2>2, <2>3
  <1> QED BY <1>5, <1>7, <1>8 DEF Quiet

LEMMA QuietHolds ==
    ASSUME Quiet, [AgentNext]_agentVars
    PROVE  Quiet'
  <1>0. "user" \in Doers /\ "health" \in Doers /\ \A d \in Doers : d \in {"user", "health"}
    BY DEF Doers
  <1>1. CASE Command
    <2>1. PICK steps \in {profileRefreshOn, profileRefreshOff, profileRefreshRepair,
                          rebootstrapProfileRefresh} :
            todo' = [todo EXCEPT !["user"] = steps]
      BY <1>1 DEF Command, Leaves
    <2>2. steps \in Seq(Calls) /\ OffFirst(steps)
      BY <2>1, CommandCalls DEF Quiet, OffFirst
    <2>3. /\ todo' = [d \in Doers |-> todo'[d]]
          /\ todo'["user"] = steps /\ todo'["health"] = todo["health"]
      BY <1>0, <2>1 DEF Quiet
    <2>4. UNCHANGED <<switch, program>> /\ ~stopped'
      BY <1>1 DEF Command
    <2> QED BY <1>0, <2>2, <2>3, <2>4 DEF Quiet, OffFirst
  <1>2. CASE HealthTick
    <2>1. /\ todo' = [todo EXCEPT !["health"] = profileRefreshRepair]
          /\ UNCHANGED <<switch, program, stopped>>
      BY <1>2 DEF HealthTick, Leaves
    <2>2. /\ todo' = [d \in Doers |-> todo'[d]]
          /\ todo'["health"] = profileRefreshRepair /\ todo'["user"] = todo["user"]
      BY <1>0, <2>1 DEF Quiet
    <2> QED BY <1>0, <2>1, <2>2, CommandCalls DEF Quiet, OffFirst
  <1>3. ASSUME NEW d \in Doers, Do(d)
        PROVE  Quiet'
    BY <1>3, DoQuiet
  <1>4. CASE WatchReads \/ WatchAttempts \/ WatchSleeps \/ WatchEnds \/ UNCHANGED agentVars
    <2>1. UNCHANGED <<switch, program, todo, stopped>>
      BY <1>4 DEF WatchReads, WatchAttempts, WatchSleeps, Watch, WatchEnds, Mishap, agentVars
    <2> QED BY <2>1 DEF Quiet, OffFirst
  <1>5. CASE Interrupted
    <2>1. /\ todo' = [todo EXCEPT !["user"] = <<>>]
          /\ UNCHANGED <<switch, program, stopped>>
      BY <1>5 DEF Interrupted, Leaves
    <2>2. /\ todo' = [d \in Doers |-> todo'[d]]
          /\ todo'["user"] = <<>> /\ todo'["health"] = todo["health"]
      BY <1>0, <2>1 DEF Quiet
    <2>3. <<>> \in Seq(Calls) /\ \A call : ~Has(<<>>, call)
      BY EmptySeq DEF Has
    <2> QED BY <1>0, <2>1, <2>2, <2>3 DEF Quiet, OffFirst
  <1>6. CASE Login
    <2>1. /\ todo' = [d \in Doers |-> todo'[d]]
          /\ \A d \in Doers : todo'[d] \in {<<>>, profileRefreshRepair}
          /\ todo'["user"] = <<>>
          /\ UNCHANGED <<switch, program, stopped>>
      BY <1>0, <1>6 DEF Login
    <2>2. <<>> \in Seq(Calls) /\ \A call : ~Has(<<>>, call)
      BY EmptySeq DEF Has
    <2> QED BY <1>0, <2>1, <2>2, CommandCalls DEF Quiet, OffFirst
  <1>7. CASE Moved
    <2>1. program' \in Nat /\ UNCHANGED <<switch, todo, stopped>>
      BY <1>7 DEF Moved, Quiet
    <2> QED BY <2>1 DEF Quiet, OffFirst
  <1> QED BY <1>1, <1>2, <1>3, <1>4, <1>5, <1>6, <1>7 DEF AgentNext

\* After `off` has ended no wake decides on an attempt until a command has switched
\* the refresh on again: for any number of commands, interruptions, logins and moves
\* of the program, whatever the health job was repairing when `off` ran, and
\* although that repair may leave a watch that `off` does not see.
THEOREM OffStays == AgentSpec => OffStaysOff
  <1>1. ASSUME AgentInit
        PROVE  Quiet
    <2>1. program = 1 /\ todo = [d \in Doers |-> <<>>] /\ ~stopped
      BY <1>1 DEF AgentInit
    <2>2. \A d \in Doers : todo[d] = <<>>
      BY <2>1
    <2>3. <<>> \in Seq(Calls) /\ \A call : ~Has(<<>>, call)
      BY EmptySeq DEF Has
    <2>4. todo["user"] = <<>> /\ todo["health"] = <<>>
      BY <2>2 DEF Doers
    <2> QED BY <2>1, <2>2, <2>3, <2>4 DEF Quiet, OffFirst
  <1>2. Quiet /\ [AgentNext]_agentVars => Quiet'
    BY QuietHolds
  <1>3. Quiet /\ [AgentNext]_agentVars
          => [watch # "due" /\ watch' = "due" => ~stopped]_agentVars
    <2> SUFFICES ASSUME Quiet, AgentNext, watch # "due", watch' = "due"
                 PROVE  ~stopped
      BY DEF agentVars
    <2>1. WatchReads
      BY DEF AgentNext, Command, HealthTick, Do, SwitchCall, FileCall, Bootout, Bootstrap, Started,
             WatchAttempts, WatchSleeps, Watch, WatchEnds, Interrupted, Login, Moved, NotRunning
    <2>2. switch
      BY <2>1 DEF WatchReads, Watch, NotRunning
    <2> QED BY <2>2 DEF Quiet
  <1> QED BY <1>1, <1>2, <1>3, PTL DEF AgentSpec, OffStaysOff
=============================================================================
