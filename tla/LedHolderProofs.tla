-------------------------- MODULE LedHolderProofs --------------------------
(***************************************************************************)
(* The LED holder for any number of clients and lights.                    *)
(***************************************************************************)
EXTENDS LedHolder, TLAPS

\* A write that is one of its register's values.
FieldWrite == [field : {"body"}, value : Body] \cup [field : {"mode"}, value : Mode]

LEMMA ConstantFacts ==
    /\ SomeLight \in Lights /\ Effect \in Raw /\ Patched \in Raw
    /\ NoIdent \in [on : BOOLEAN, light : Lights, value : Raw]
    /\ NoSession \in [saved : BOOLEAN, failed : BOOLEAN]
<1>1. SomeLight \in Lights
  BY LightsAssumption DEF SomeLight
<1>2. Effect \in Raw /\ Patched \in Raw
  BY DEF Effect, Patched, Raw, Body, Mode
<1> QED
  BY <1>1, <1>2 DEF NoIdent, NoSession

LEMMA WritesType ==
    ASSUME NEW wanted \in Raw, NEW before \in Raw, NEW restore \in BOOLEAN
    PROVE  /\ Writes(wanted, before, restore) \in Seq(FieldWrite)
           /\ Len(Writes(wanted, before, restore)) <= 3
<1> DEFINE off == [field |-> "mode", value |-> "off"]
           b == [field |-> "body", value |-> wanted.body]
           m == [field |-> "mode", value |-> wanted.mode]
           quiet == Quiesce(wanted, before, restore)
           s1 == IF quiet THEN <<off>> ELSE <<>>
           s2 == IF restore \/ wanted.body # before.body THEN <<b>> ELSE <<>>
           s3 == IF restore \/ quiet \/ wanted.mode # before.mode THEN <<m>> ELSE <<>>
<1>1. off \in FieldWrite /\ b \in FieldWrite /\ m \in FieldWrite
  BY DEF FieldWrite, Raw, Body, Mode
<1>2. Writes(wanted, before, restore) = s1 \o s2 \o s3
  BY DEF Writes
<1> HIDE DEF off, b, m, quiet
<1>3. /\ s1 \in Seq(FieldWrite) /\ Len(s1) <= 1 /\ s2 \in Seq(FieldWrite) /\ Len(s2) <= 1
      /\ s3 \in Seq(FieldWrite) /\ Len(s3) <= 1
  BY <1>1
<1> HIDE DEF s1, s2, s3
<1> QED
  BY <1>2, <1>3

\* One register of one light written.
LEMMA OneWrite ==
    ASSUME NEW r \in Raw, NEW w \in FieldWrite
    PROVE  [r EXCEPT ![w.field] = w.value] \in Raw
<1>1. CASE w.field = "body" /\ w.value \in Body
  <2>1. [r EXCEPT ![w.field] = w.value] = [r EXCEPT !.body = w.value]
    BY <1>1
  <2> QED
    BY <1>1, <2>1 DEF Raw
<1>2. CASE w.field = "mode" /\ w.value \in Mode
  <2>1. [r EXCEPT ![w.field] = w.value] = [r EXCEPT !.mode = w.value]
    BY <1>2
  <2> QED
    BY <1>2, <2>1 DEF Raw
<1> QED
  BY <1>1, <1>2 DEF FieldWrite

-----------------------------------------------------------------------------
(* Types. *)

Job == [why : Reasons, light : Lights, wanted : Raw, before : Raw, todo : Seq(FieldWrite)]

LEMMA CommitType ==
    ASSUME NEW why \in Reasons, NEW light \in Lights, NEW wanted \in Raw, NEW before \in Raw,
           NEW restore \in BOOLEAN
    PROVE  /\ Commit(why, light, wanted, before, restore) \in Job
           /\ Len(Commit(why, light, wanted, before, restore).todo) <= 3
  BY WritesType DEF Commit, Job

LEMMA NoJobType == NoJob \in Job /\ Len(NoJob.todo) <= 3 /\ NoJob.why = "none"
<1>1. <<>> \in Seq(FieldWrite) /\ Len(<<>>) = 0
  OBVIOUS
<1> QED
  BY <1>1, ConstantFacts DEF NoJob, Job, Reasons

\* A job is typed as TypeOK says.
JobOK == job \in Job /\ Len(job.todo) <= 3

LEMMA JobTypes ==
    ASSUME JobOK
    PROVE  /\ job.why \in Reasons /\ job.light \in Lights /\ job.wanted \in Raw /\ job.before \in Raw
           /\ job.todo \in Seq(Write) /\ Len(job.todo) <= 3
<1>1. FieldWrite \subseteq Write
  BY DEF FieldWrite, Write
<1>2. job.todo \in Seq(FieldWrite)
  BY DEF JobOK, Job
<1>3. job.todo \in Seq(Write)
  BY <1>1, <1>2
<1> QED
  BY <1>3 DEF JobOK, Job

\* The rest of TypeOK, in the parts that change together.
HardwareOK == /\ lights \in [Lights -> Raw] /\ flow \in {0, 1} /\ kept \in [Lights -> Raw]
              /\ unsure \subseteq Lights /\ base \in [lights : [Lights -> Raw], flow : {0, 1}]
HolderOK == /\ h \in {"off", "open", "takeover", "bind", "listen", "serve", "work", "hangup",
                      "exit", "base", "flow"}
            /\ stop \in BOOLEAN /\ sock \in {"none", "bound", "stale"} /\ confirmed \in BOOLEAN
            /\ rest \subseteq Lights /\ result \in {"none", "ok", "failed"}
            /\ served \in Clients \cup {NoClient} /\ pid \in Clients \cup {NoClient}
SessionOK == /\ ident \in [on : BOOLEAN, light : Lights, value : Raw]
             /\ session \in [saved : BOOLEAN, failed : BOOLEAN]
WireOK == /\ queue \in Seq(Clients)
          /\ cl \in [Clients -> {"off", "start", "wait", "begin", "lit", "leaving", "gone"}]
          /\ req \in [Clients -> Requests \cup {"none"}]
          /\ resp \in [Clients -> {"none", "ok", "unconfirmed", "error"}]
          /\ closed \in [Clients -> BOOLEAN]
Typed == HardwareOK /\ HolderOK /\ SessionOK /\ WireOK /\ JobOK

LEMMA TypedIsTypeOK == Typed => TypeOK
  BY JobTypes DEF Typed, HardwareOK, HolderOK, SessionOK, WireOK, TypeOK

LEMMA Frames ==
    /\ HardwareOK /\ UNCHANGED <<lights, flow, base, kept, unsure>> => HardwareOK'
    /\ HolderOK /\ UNCHANGED <<h, stop, sock, confirmed, rest, result, served, pid>> => HolderOK'
    /\ SessionOK /\ UNCHANGED <<ident, session>> => SessionOK'
    /\ WireOK /\ UNCHANGED wire => WireOK'
    /\ JobOK /\ UNCHANGED job => JobOK'
  BY DEF HardwareOK, HolderOK, SessionOK, WireOK, JobOK, wire

LEMMA InitTyped == Init => Typed
<1> SUFFICES ASSUME Init PROVE Typed
  OBVIOUS
<1>1. HardwareOK
  BY FirstAssumption DEF Init, HardwareOK
<1>2. HolderOK
  BY DEF Init, HolderOK
<1>3. SessionOK
  BY ConstantFacts DEF Init, SessionOK
<1>4. WireOK
  BY DEF Init, WireOK, Requests
<1>5. JobOK
  BY NoJobType DEF Init, JobOK
<1> QED
  BY <1>1, <1>2, <1>3, <1>4, <1>5 DEF Typed

Answers == {"none", "ok", "unconfirmed", "error"}

LEMMA RespondType ==
    ASSUME Typed, NEW answer \in Answers, NEW failed, Respond(answer, failed)
    PROVE  h' \in {"hangup", "serve"} /\ resp' \in [Clients -> Answers]
<1>1. resp \in [Clients -> Answers]
  BY DEF Typed, WireOK, Answers
<1> QED
  BY <1>1 DEF Respond

LEMMA ResetType ==
    ASSUME Typed, NEW cs, Reset(cs)
    PROVE  req' \in [Clients -> Requests \cup {"none"}] /\ closed' \in [Clients -> BOOLEAN]
  BY DEF Typed, WireOK, Reset

\* Opening, accepting and stopping.
LEMMA OpeningTyped ==
    ASSUME Typed, Start \/ OpenRefused \/ Snapshots \/ TakeFlow \/ Bind \/ StopSeen \/ ListenFails
                  \/ Disconnected \/ Stop \/ Foreign
    PROVE  Typed'
<1>1. HardwareOK'
  BY Frames DEF Typed, HardwareOK, Start, OpenRefused, Snapshots, TakeFlow, Bind, StopSeen,
     ListenFails, Disconnected, Stop, Foreign, hardware, memory, history
<1>2. HolderOK'
  BY ZenonT(60) DEF Typed, HolderOK, HardwareOK, Start, OpenRefused, Snapshots, TakeFlow, Bind, StopSeen,
     ListenFails, Disconnected, Stop, Foreign, memory
<1>3. SessionOK' /\ WireOK' /\ JobOK'
  BY Frames DEF Typed, Start, OpenRefused, Snapshots, TakeFlow, Bind, StopSeen,
     ListenFails, Disconnected, Stop, Foreign, memory
<1> QED
  BY <1>1, <1>2, <1>3 DEF Typed

LEMMA AcceptTyped ==
    ASSUME Typed, Accept
    PROVE  Typed'
<1>1. HardwareOK' /\ JobOK'
  BY Frames DEF Typed, Accept, hardware, history
<1>2. Head(queue) \in Clients /\ Tail(queue) \in Seq(Clients)
  BY DEF Typed, WireOK, Accept
<1>3. HolderOK' /\ WireOK'
  BY <1>2 DEF Typed, HolderOK, WireOK, Accept
<1>4. SessionOK'
  BY ConstantFacts DEF Typed, SessionOK, Accept
<1> QED
  BY <1>1, <1>3, <1>4 DEF Typed

\* What an answer or a new job leaves well typed.
ReplyOK == /\ h' \in {"hangup", "serve", "work"} /\ resp' \in [Clients -> Answers]
           /\ confirmed' \in BOOLEAN /\ SessionOK' /\ JobOK'

LEMMA AnswerTyped ==
    ASSUME Typed, NEW answer \in Answers, NEW failed, Respond(answer, failed),
           confirmed' \in BOOLEAN, SessionOK', JobOK'
    PROVE  ReplyOK
<1>1. h' \in {"hangup", "serve"} /\ resp' \in [Clients -> Answers]
  BY RespondType
<1> QED
  BY <1>1 DEF ReplyOK

LEMMA WorkTyped ==
    ASSUME Typed, NEW why \in Reasons, NEW light \in Lights, NEW wanted \in Raw, NEW before \in Raw,
           NEW restore \in BOOLEAN, Work(Commit(why, light, wanted, before, restore)),
           confirmed' \in BOOLEAN, SessionOK'
    PROVE  ReplyOK
<1> DEFINE j == Commit(why, light, wanted, before, restore)
<1>1. j \in Job /\ Len(j.todo) <= 3
  BY CommitType
<1>2. h' = "work" /\ job' = j /\ resp' = resp
  BY DEF Work
<1> HIDE DEF j
<1>3. JobOK'
  BY <1>1, <1>2 DEF JobOK
<1>4. resp' \in [Clients -> Answers]
  BY <1>2 DEF Typed, WireOK, Answers
<1> QED
  BY <1>2, <1>3, <1>4 DEF ReplyOK

LEMMA ReceiveTyped ==
    ASSUME Typed, Receive
    PROVE  Typed'
<1>1. HardwareOK'
  BY Frames DEF Typed, Receive, hardware, history
<1>2. lights \in [Lights -> Raw] /\ ident.light \in Lights /\ ident.value \in Raw
  BY DEF Typed, HardwareOK, SessionOK
<1>3. confirmed \in BOOLEAN /\ SessionOK /\ JobOK
  BY DEF Typed, HolderOK
<1>4. "ok" \in Answers /\ "error" \in Answers /\ "unconfirmed" \in Answers
  BY DEF Answers
<1>5. ASSUME UNCHANGED <<confirmed, ident, session>>
      PROVE  confirmed' \in BOOLEAN /\ SessionOK'
  BY <1>3, <1>5, Frames
<1>6. ASSUME UNCHANGED <<ident, session, job>>
      PROVE  SessionOK' /\ JobOK'
  BY <1>3, <1>6, Frames
<1>7. ASSUME Unconfirmed PROVE ReplyOK
  <2>1. Respond("unconfirmed", FALSE) /\ UNCHANGED <<confirmed, ident, session, job>>
    BY <1>7 DEF Unconfirmed
  <2> QED
    BY <1>4, <1>5, <1>6, <2>1, AnswerTyped
<1>8. ASSUME Info \/ Read PROVE ReplyOK
  <2>1. Respond("ok", FALSE) /\ UNCHANGED <<confirmed, ident, session, job>>
    BY <1>8 DEF Info, Read
  <2> QED
    BY <1>4, <1>5, <1>6, <2>1, AnswerTyped
<1>9. ASSUME GuardFails PROVE ReplyOK
  <2>1. Respond("error", FALSE) /\ UNCHANGED <<ident, session, job>> /\ confirmed' \in BOOLEAN
    BY <1>9 DEF GuardFails, AfterFailure
  <2> QED
    BY <1>4, <1>6, <2>1, AnswerTyped
<1>10. ASSUME Refuse PROVE ReplyOK
  <2>1. Respond("error", FALSE) /\ UNCHANGED <<confirmed, ident, session, job>>
    BY <1>10 DEF Refuse
  <2> QED
    BY <1>4, <1>5, <1>6, <2>1, AnswerTyped
<1>11. ASSUME Apply /\ ~Refuse PROVE ReplyOK
  <2>1. PICK l \in Lights : /\ Work(Commit("apply", l, Patched, lights[l], FALSE))
                            /\ UNCHANGED <<confirmed, ident, session>>
    BY <1>11 DEF Apply
  <2>2. lights[l] \in Raw /\ Patched \in Raw /\ "apply" \in Reasons /\ FALSE \in BOOLEAN
    BY <1>2, ConstantFacts DEF Reasons
  <2> QED
    BY <1>5, <2>1, <2>2, WorkTyped
<1>12. ASSUME Begin /\ ~Refuse PROVE ReplyOK
  <2>1. PICK l \in Lights : /\ Work(Commit("begin", l, Effect, lights[l], FALSE))
                            /\ ident' = [on |-> TRUE, light |-> l, value |-> lights[l]]
                            /\ UNCHANGED <<confirmed, session>>
    BY <1>12 DEF Begin
  <2>2. lights[l] \in Raw /\ Effect \in Raw /\ "begin" \in Reasons /\ FALSE \in BOOLEAN
    BY <1>2, ConstantFacts DEF Reasons
  <2>3. SessionOK' /\ confirmed' \in BOOLEAN
    BY <1>3, <2>1, <2>2 DEF SessionOK
  <2> QED
    BY <2>1, <2>2, <2>3, WorkTyped
<1>13. ASSUME End /\ ~Refuse PROVE ReplyOK
  <2>1. /\ Work(Commit("end", ident.light, ident.value, ident.value, TRUE))
        /\ UNCHANGED <<confirmed, ident, session>>
    BY <1>13 DEF End, Restore
  <2>2. "end" \in Reasons /\ TRUE \in BOOLEAN
    BY DEF Reasons
  <2> QED
    BY <1>2, <1>5, <2>1, <2>2, WorkTyped
<1>14. ReplyOK
  BY <1>7, <1>8, <1>9, <1>10, <1>11, <1>12, <1>13 DEF Receive
<1>15. HolderOK' /\ WireOK'
  BY <1>14 DEF Typed, HolderOK, WireOK, Receive, Answers, ReplyOK
<1> QED
  BY <1>1, <1>14, <1>15 DEF Typed, ReplyOK

LEMMA LightWrite ==
    ASSUME lights \in [Lights -> Raw], NEW l \in Lights, NEW w \in FieldWrite
    PROVE  /\ [lights EXCEPT ![l][w.field] = w.value] \in [Lights -> Raw]
           /\ \A k \in Lights \ {l} : [lights EXCEPT ![l][w.field] = w.value][k] = lights[k]
<1> DEFINE r == [lights[l] EXCEPT ![w.field] = w.value]
<1>1. r \in Raw
  BY OneWrite
<1>2. [lights EXCEPT ![l][w.field] = w.value] = [lights EXCEPT ![l] = r]
  OBVIOUS
<1> HIDE DEF r
<1> QED
  BY <1>1, <1>2

LEMMA WriteByteTyped ==
    ASSUME Typed, WriteByte
    PROVE  /\ Typed'
           /\ \A k \in Lights \ {job.light} : lights'[k] = lights[k]
<1>1. job \in Job /\ Len(job.todo) <= 3 /\ job.todo \in Seq(FieldWrite) /\ job.todo # <<>>
      /\ job.light \in Lights /\ lights \in [Lights -> Raw]
  BY DEF Typed, JobOK, Job, HardwareOK, WriteByte
<1>2. /\ Head(job.todo) \in FieldWrite /\ Tail(job.todo) \in Seq(FieldWrite)
      /\ Len(Tail(job.todo)) <= 3
  BY <1>1
<1>3. lights' \in [Lights -> Raw] /\ \A k \in Lights \ {job.light} : lights'[k] = lights[k]
  <2> DEFINE w == Head(job.todo)
  <2>1. lights' = [lights EXCEPT ![job.light][w.field] = w.value]
    BY DEF WriteByte
  <2> HIDE DEF w
  <2> QED
    BY <1>1, <1>2, <2>1, LightWrite DEF w
<1>4. JobOK'
  <2>1. job' = [job EXCEPT !.todo = Tail(job.todo)]
    BY DEF WriteByte
  <2> QED
    BY <1>1, <1>2, <2>1 DEF JobOK, Job
<1>5. HardwareOK'
  BY <1>3 DEF Typed, HardwareOK, WriteByte, history
<1>6. HolderOK'
  BY DEF Typed, HolderOK, WriteByte
<1>7. SessionOK' /\ WireOK'
  BY Frames DEF Typed, WriteByte
<1> QED
  BY <1>3, <1>4, <1>5, <1>6, <1>7 DEF Typed

\* What follows a commit, case by case.
FinishOK == /\ h' \in {"hangup", "serve", "work", "base", "flow"} /\ resp' \in [Clients -> Answers]
            /\ SessionOK' /\ JobOK' /\ kept' \in [Lights -> Raw] /\ unsure' \subseteq Lights
            /\ rest' \subseteq Lights /\ result' \in {"none", "ok", "failed"}

LEMMA SessionUpdates ==
    ASSUME NEW s \in [saved : BOOLEAN, failed : BOOLEAN]
    PROVE  /\ [s EXCEPT !.saved = TRUE] = [saved |-> TRUE, failed |-> s.failed]
           /\ [s EXCEPT !.saved = FALSE] = [saved |-> FALSE, failed |-> s.failed]
           /\ [s EXCEPT !.failed = TRUE] = [saved |-> s.saved, failed |-> TRUE]
<1>1. ASSUME NEW b, b \in BOOLEAN
      PROVE  [s EXCEPT !.saved = b] = [saved |-> b, failed |-> s.failed]
  <2> DEFINE t == [s EXCEPT !.saved = b]
  <2>1. t \in [saved : BOOLEAN, failed : BOOLEAN] /\ t.saved = b /\ t.failed = s.failed
    BY <1>1
  <2> HIDE DEF t
  <2> QED
    BY <2>1 DEF t
<1>2. ASSUME NEW b, b \in BOOLEAN
      PROVE  [s EXCEPT !.failed = b] = [saved |-> s.saved, failed |-> b]
  BY <1>2
<1> QED
  BY <1>1, <1>2

LEMMA FinishTyped ==
    ASSUME Typed, NEW ok \in BOOLEAN, Finish(ok), confirmed' \in BOOLEAN
    PROVE  FinishOK
<1>1. /\ job.light \in Lights /\ job.wanted \in Raw /\ job.before \in Raw
      /\ ident \in [on : BOOLEAN, light : Lights, value : Raw]
      /\ session \in [saved : BOOLEAN, failed : BOOLEAN]
      /\ kept \in [Lights -> Raw] /\ unsure \subseteq Lights
      /\ rest \subseteq Lights /\ result \in {"none", "ok", "failed"}
  BY DEF Typed, SessionOK, JobOK, Job, HardwareOK, HolderOK
<1>2. resp \in [Clients -> Answers] /\ ident.light \in Lights /\ ident.value \in Raw
  BY <1>1 DEF Typed, WireOK, Answers
<1>3. NoJob \in Job /\ Len(NoJob.todo) <= 3
  BY NoJobType
<1>4. NoIdent \in [on : BOOLEAN, light : Lights, value : Raw]
  BY ConstantFacts
<1>5. "ok" \in Answers /\ "error" \in Answers
  BY DEF Answers
<1>6. kept' \in [Lights -> Raw] /\ unsure' \subseteq Lights
  BY <1>1, ConstantFacts DEF Finish, history
<1>7. rest' \subseteq Lights /\ result' \in {"none", "ok", "failed"}
  BY <1>1 DEF Finish
<1>8. ident' \in [on : BOOLEAN, light : Lights, value : Raw]
  BY <1>1, <1>4 DEF Finish
<1>9. session' \in [saved : BOOLEAN, failed : BOOLEAN]
  <2>1. /\ [session EXCEPT !.saved = TRUE] = [saved |-> TRUE, failed |-> session.failed]
        /\ [session EXCEPT !.saved = FALSE] = [saved |-> FALSE, failed |-> session.failed]
        /\ [session EXCEPT !.failed = TRUE] = [saved |-> session.saved, failed |-> TRUE]
    BY <1>1, SessionUpdates
  <2>2. \/ session' = session \/ session' = [session EXCEPT !.saved = TRUE]
        \/ session' = [saved |-> ~ok, failed |-> ~ok]
        \/ session' = [session EXCEPT !.saved = FALSE] \/ session' = [session EXCEPT !.failed = TRUE]
        \/ session' = [saved |-> FALSE, failed |-> session.failed \/ ~ok]
    BY DEF Finish
  <2>3. session.saved \in BOOLEAN /\ session.failed \in BOOLEAN
    BY <1>1
  <2>4. \/ session' = session
        \/ \E b \in BOOLEAN, c \in BOOLEAN : session' = [saved |-> b, failed |-> c]
    BY <2>1, <2>2, <2>3
  <2> QED
    BY <1>1, <2>4
<1>10. SessionOK'
  BY <1>8, <1>9 DEF SessionOK
<1>11. ASSUME NEW answer \in Answers, NEW failed, Respond(answer, failed), job' = NoJob
       PROVE  FinishOK
  <2>1. JobOK'
    BY <1>3, <1>11 DEF JobOK
  <2>2. ReplyOK
    BY <1>10, <1>11, <2>1, AnswerTyped
  <2> QED
    BY <1>6, <1>7, <2>2 DEF FinishOK, ReplyOK
<1>12. ASSUME NEW why \in Reasons, NEW light \in Lights, NEW value \in Raw, Work(Restore(why, light, value))
       PROVE  FinishOK
  <2>1. TRUE \in BOOLEAN /\ Work(Commit(why, light, value, value, TRUE))
    BY <1>12 DEF Restore
  <2>2. ReplyOK
    BY <1>10, <1>12, <2>1, WorkTyped
  <2> QED
    BY <1>6, <1>7, <2>2 DEF FinishOK, ReplyOK
<1>13. ASSUME h' \in {"hangup", "base", "flow"}, job' = NoJob, resp' = resp
       PROVE  FinishOK
  BY <1>2, <1>3, <1>6, <1>7, <1>10, <1>13 DEF FinishOK, JobOK
<1>14. \/ \E answer \in Answers, failed \in BOOLEAN : Respond(answer, failed) /\ job' = NoJob
       \/ \E why \in Reasons, light \in Lights, value \in Raw : Work(Restore(why, light, value))
       \/ h' \in {"hangup", "base", "flow"} /\ job' = NoJob /\ resp' = resp
  <2>1. CASE job.why \in {"apply", "begin"} /\ ~ok
    <3>1. Work(Restore(IF job.why = "apply" THEN "apply_undo" ELSE "begin_undo", job.light, job.before))
      BY <2>1 DEF Finish
    <3>2. (IF job.why = "apply" THEN "apply_undo" ELSE "begin_undo") \in Reasons
      BY DEF Reasons
    <3> QED
      BY <1>1, <3>1, <3>2
  <2>2. CASE job.why = "begin_undo"
    <3>1. Work(Restore("begin_end", job.light, ident.value)) /\ "begin_end" \in Reasons
      BY <2>2 DEF Finish, Reasons
    <3> QED
      BY <1>1, <1>2, <3>1
  <2>3. CASE job.why \in {"hangup", "exit_end", "base"}
    BY <2>3 DEF Finish
  <2>4. CASE job.why \in {"apply", "begin"} /\ ok
    <3>1. Respond("ok", FALSE) /\ job' = NoJob
      BY <2>4 DEF Finish
    <3> QED
      BY <1>5, <3>1
  <2>5. CASE job.why = "apply_undo"
    <3>1. Respond("error", FALSE) /\ job' = NoJob
      BY <2>5 DEF Finish
    <3> QED
      BY <1>5, <3>1
  <2>6. CASE job.why = "begin_end"
    <3>1. Respond("error", ~ok) /\ job' = NoJob
      BY <2>6 DEF Finish
    <3> QED
      BY <1>5, <3>1
  <2>7. CASE job.why = "end"
    <3>1. Respond(IF ok THEN "ok" ELSE "error", ~ok) /\ job' = NoJob
      BY <2>7 DEF Finish
    <3>2. (IF ok THEN "ok" ELSE "error") \in Answers
      BY <1>5
    <3> QED
      BY <3>1, <3>2
  <2> QED
    BY <2>1, <2>2, <2>3, <2>4, <2>5, <2>6, <2>7 DEF Finish
<1> QED
  BY <1>11, <1>12, <1>13, <1>14

\* A commit writes its own light only.
LEMMA CommitTyped ==
    ASSUME Typed, CommitDone \/ CommitFails
    PROVE  /\ Typed' /\ lights' \in [Lights -> Raw]
           /\ \A k \in Lights \ {job.light} : lights'[k] = lights[k]
<1>1. /\ job.todo \in Seq(FieldWrite) /\ job.light \in Lights /\ lights \in [Lights -> Raw]
  BY DEF Typed, JobOK, Job, HardwareOK
<1>2. lights' \in [Lights -> Raw] /\ \A k \in Lights \ {job.light} : lights'[k] = lights[k]
  <2> DEFINE w == Head(job.todo)
  <2>1. \/ lights' = lights
        \/ job.todo # <<>> /\ lights' = [lights EXCEPT ![job.light][w.field] = w.value]
    BY DEF CommitDone, CommitFails, hardware
  <2>2. job.todo # <<>> => w \in FieldWrite
    BY <1>1
  <2> HIDE DEF w
  <2>3. CASE lights' = lights
    BY <1>1, <2>3
  <2>4. CASE job.todo # <<>> /\ lights' = [lights EXCEPT ![job.light][w.field] = w.value]
    BY <1>1, <2>2, <2>4, LightWrite
  <2> QED
    BY <2>1, <2>3, <2>4
<1>3. confirmed' \in BOOLEAN
  BY DEF CommitDone, CommitFails, AfterFailure
<1>4. PICK ok \in BOOLEAN : Finish(ok)
  BY DEF CommitDone, CommitFails
<1>5. FinishOK
  BY <1>3, <1>4, FinishTyped
<1>6. UNCHANGED <<flow, stop, sock, base, served, pid, queue, cl, req, closed>>
  BY DEF CommitDone, CommitFails, hardware
<1>7. HardwareOK'
  BY <1>2, <1>5, <1>6 DEF Typed, HardwareOK, FinishOK
<1>8. HolderOK'
  BY <1>3, <1>5, <1>6 DEF Typed, HolderOK, FinishOK
<1>9. WireOK'
  BY <1>5, <1>6 DEF Typed, WireOK, FinishOK, Answers
<1> QED
  BY <1>2, <1>5, <1>7, <1>8, <1>9 DEF Typed, FinishOK

LEMMA RestoreType ==
    ASSUME NEW why \in Reasons, NEW light \in Lights, NEW value \in Raw
    PROVE  Restore(why, light, value) \in Job /\ Len(Restore(why, light, value).todo) <= 3
<1>1. TRUE \in BOOLEAN
  OBVIOUS
<1> QED
  BY <1>1, CommitType DEF Restore

\* The end of a connection and of the holder.
LEMMA ClosingTyped ==
    ASSUME Typed, RestoreOnHangup \/ HungUp \/ CloseListener \/ RestoreHolder \/ AllRestored \/ Release
    PROVE  Typed'
<1>1. /\ ident.light \in Lights /\ ident.value \in Raw /\ base.flow \in {0, 1}
      /\ base.lights \in [Lights -> Raw] /\ "hangup" \in Reasons /\ "exit_end" \in Reasons
      /\ "base" \in Reasons
  BY DEF Typed, SessionOK, HardwareOK, Reasons
<1>2. HardwareOK'
  BY <1>1 DEF Typed, HardwareOK, RestoreOnHangup, HungUp, CloseListener, RestoreHolder,
     AllRestored, Release, hardware, history
<1>3. AfterFailure({0, 1}) \subseteq BOOLEAN /\ AfterFailure({1}) \subseteq BOOLEAN
  BY DEF AfterFailure
<1>4. HolderOK'
  BY <1>3 DEF Typed, HolderOK, RestoreOnHangup, HungUp, CloseListener, RestoreHolder, AllRestored, Release
<1>5. SessionOK'
  BY ConstantFacts DEF Typed, SessionOK, RestoreOnHangup, HungUp, CloseListener, RestoreHolder,
     AllRestored, Release
<1>6. JobOK'
  <2>1. \/ job' = job \/ job' = NoJob
        \/ \E why \in Reasons, light \in Lights, value \in Raw : job' = Restore(why, light, value)
    <3>1. CASE RestoreOnHangup \/ CloseListener
      BY <1>1, <3>1 DEF RestoreOnHangup, CloseListener
    <3>2. CASE RestoreHolder
      <4>1. job' = job \/ \E l \in rest : job' = Restore("base", l, base.lights[l])
        BY <3>2 DEF RestoreHolder
      <4>2. rest \subseteq Lights
        BY DEF Typed, HolderOK
      <4> QED
        BY <1>1, <4>1, <4>2
    <3>3. CASE HungUp \/ AllRestored \/ Release
      BY <3>3 DEF HungUp, AllRestored, Release
    <3> QED
      BY <3>1, <3>2, <3>3
  <2>2. job' \in Job /\ Len(job'.todo) <= 3
    BY <2>1, RestoreType, NoJobType DEF Typed, JobOK
  <2> QED
    BY <2>2 DEF JobOK
<1>7. WireOK'
  <2>1. CASE RestoreOnHangup \/ RestoreHolder \/ AllRestored
    BY <2>1, Frames DEF Typed, RestoreOnHangup, RestoreHolder, AllRestored
  <2>2. CASE HungUp \/ CloseListener \/ Release
    <3>1. req' \in [Clients -> Requests \cup {"none"}] /\ closed' \in [Clients -> BOOLEAN]
      <4>1. (\E cs : Reset(cs)) \/ UNCHANGED <<req, closed>>
        BY <2>2 DEF HungUp, CloseListener, Release
      <4> QED
        BY <4>1, ResetType DEF Typed, WireOK
    <3>2. (queue' = queue \/ queue' = <<>>) /\ UNCHANGED <<cl, resp>>
      BY <2>2 DEF HungUp, CloseListener, Release
    <3>3. queue' \in Seq(Clients)
      <4>1. queue \in Seq(Clients)
        BY DEF Typed, WireOK
      <4>2. <<>> \in Seq(Clients)
        OBVIOUS
      <4> QED
        BY <3>2, <4>1, <4>2, Zenon
    <3> QED
      BY <3>1, <3>2, <3>3 DEF Typed, WireOK
  <2> QED
    BY <2>1, <2>2
<1> QED
  BY <1>2, <1>4, <1>5, <1>6, <1>7 DEF Typed

LEMMA ClientTyped ==
    ASSUME Typed, NEW c \in Clients, ClientStep(c)
    PROVE  Typed'
<1>1. UNCHANGED <<hardware, h, stop, sock, memory, result, history>>
  BY DEF ClientStep, Launch, Connect, Answered, Timeout, EndIdentify, Leave
<1>2. HardwareOK' /\ HolderOK' /\ SessionOK' /\ JobOK'
  BY <1>1, Frames DEF Typed, hardware, memory, history
<1>3. queue' \in Seq(Clients)
  BY DEF Typed, WireOK, ClientStep, Launch, Connect, Answered, Timeout, EndIdentify, Leave
<1>4. cl' \in [Clients -> {"off", "start", "wait", "begin", "lit", "leaving", "gone"}]
  BY DEF Typed, WireOK, ClientStep, Launch, Connect, Answered, Timeout, EndIdentify, Leave, Send, Hangup
<1>5. req' \in [Clients -> Requests \cup {"none"}]
  BY DEF Typed, WireOK, ClientStep, Launch, Connect, Answered, Timeout, EndIdentify, Leave, Send,
     Hangup, Requests
<1>6. resp' \in [Clients -> {"none", "ok", "unconfirmed", "error"}]
  BY DEF Typed, WireOK, ClientStep, Launch, Connect, Answered, Timeout, EndIdentify, Leave, Send, Hangup
<1>7. closed' \in [Clients -> BOOLEAN]
  <2>1. Holding(c) \in BOOLEAN /\ closed \in [Clients -> BOOLEAN]
    BY DEF Typed, WireOK, Holding
  <2>2. \/ closed' = closed
        \/ \E b \in BOOLEAN : closed' = [closed EXCEPT ![c] = b]
    BY <2>1 DEF ClientStep, Launch, Connect, Answered, Timeout, EndIdentify, Leave, Hangup
  <2> QED
    BY <2>1, <2>2
<1> QED
  BY <1>2, <1>3, <1>4, <1>5, <1>6, <1>7 DEF Typed, WireOK

LEMMA StutterTyped ==
    ASSUME Typed, UNCHANGED vars
    PROVE  Typed'
  BY Frames DEF Typed, vars, hardware, memory, wire, history

LEMMA NextTyped == Typed /\ [Next]_vars => Typed'
<1> SUFFICES ASSUME Typed, [Next]_vars PROVE Typed'
  OBVIOUS
<1> QED
  BY OpeningTyped, AcceptTyped, ReceiveTyped, WriteByteTyped, CommitTyped, ClosingTyped, ClientTyped,
     StutterTyped DEF Next, HolderStep

(* Every variable keeps its type: no step of the holder, of a client or of another   *)
(* owner leaves a register, a job's remaining writes or a message without a value     *)
(* the code can have (struct cs201x_context, src/led/led_cs201x.c).                   *)
THEOREM TypeCorrect == Spec => []TypeOK
<1>1. Typed /\ [Next]_vars => Typed'
  BY NextTyped
<1>2. Init => Typed
  BY InitTyped
<1>3. Typed => TypeOK
  BY TypedIsTypeOK
<1> QED
  BY <1>1, <1>2, <1>3, PTL DEF Spec

-----------------------------------------------------------------------------
(* How a holder ends. *)

\* A restoration that fails says so; only a checked one keeps the result.
LEMMA ExitStep ==
    ASSUME Typed, [Next]_vars, h # "flow", h' = "flow", result' = "ok"
    PROVE  lights' = base.lights /\ flow' = base.flow
<1>1. CASE RestoreHolder
  <2>1. UNCHANGED <<lights, flow>>
    BY <1>1 DEF RestoreHolder, hardware
  <2>2. Guard({0}) /\ base.flow = 0 /\ lights = base.lights
    BY <1>1 DEF RestoreHolder
  <2> QED
    BY <2>1, <2>2 DEF Guard
<1>2. CASE AllRestored
  BY <1>2 DEF AllRestored
<1>3. CASE CommitDone \/ CommitFails
  <2>1. PICK ok \in BOOLEAN : Finish(ok)
    BY <1>3 DEF CommitDone, CommitFails
  <2>2. job.why = "base" /\ ~ok => result' = "failed"
    BY <2>1 DEF Finish
  <2>3. job.why = "base" /\ ok => h' = "base"
    BY <2>1 DEF Finish
  <2>4. job.why # "base" => h' # "flow"
    BY <2>1 DEF Finish, Respond, Work
  <2> QED
    BY <2>2, <2>3, <2>4
<1>4. CASE Receive
  BY <1>4 DEF Receive, Unconfirmed, Info, GuardFails, Read, Apply, Begin, End, Refuse, Respond, Work
<1>5. CASE Start \/ OpenRefused \/ Snapshots \/ TakeFlow \/ Bind \/ Accept \/ StopSeen \/ ListenFails \/ Disconnected
           \/ RestoreOnHangup \/ HungUp \/ CloseListener \/ Release
  BY <1>5 DEF Start, OpenRefused, Snapshots, TakeFlow, Bind, Accept, StopSeen, ListenFails, Disconnected,
     RestoreOnHangup, HungUp, CloseListener, Release
<1>6. CASE WriteByte \/ Stop \/ Foreign \/ UNCHANGED vars
  BY <1>6 DEF WriteByte, Stop, Foreign, vars
<1>7. ASSUME NEW c \in Clients, ClientStep(c) PROVE FALSE
  BY <1>7 DEF ClientStep, Launch, Connect, Answered, Timeout, EndIdentify, Leave
<1> QED
  BY <1>1, <1>2, <1>3, <1>4, <1>5, <1>6, <1>7 DEF Next, HolderStep

(* A holder that ends with success put every light and FLOW back to what it found     *)
(* (restore_holder, src/led/led_cs201x.c:369-398), for any lights and clients.        *)
THEOREM ExitRestoresAlways == Spec => ExitRestores
<1>1. Typed /\ [Next]_vars => Typed'
  BY NextTyped
<1>2. Init => Typed
  BY InitTyped
<1>3. Typed /\ [Next]_vars =>
        [h # "flow" /\ h' = "flow" /\ result' = "ok" => lights' = base.lights /\ flow' = base.flow]_vars
  BY ExitStep
<1> QED
  BY <1>1, <1>2, <1>3, PTL DEF Spec, ExitRestores

-----------------------------------------------------------------------------
(* Lights between clients.                                                     *)
(*                                                                             *)
(* RestoredBetweenClients speaks of the state "listen" only; the strengthening *)
(* follows a light through a connection: which light may differ from what it   *)
(* is to show, and that the value the holder will write back is the right one. *)

Agree(L, K, U) == \A l \in Lights \ U : L[l] = K[l]
AgreeBut(L, K, U, k) == \A l \in Lights \ (U \cup {k}) : L[l] = K[l]
Remembers(K, U, k, v) == k \in U \/ v = K[k]

\* Only the identified light differs, and the saved value is what it is to show.
Lit == AgreeBut(lights, kept, unsure, ident.light) /\ Remembers(kept, unsure, ident.light, ident.value)

Waiting == h \in {"takeover", "bind", "listen"} => Agree(lights, kept, unsure)
Serving ==
    /\ h = "serve" => ~session.failed
    /\ h \in {"serve", "hangup"} =>
        /\ session.saved => Lit
        /\ ~session.saved /\ ~session.failed => Agree(lights, kept, unsure)
Applying ==
    h = "work" /\ job.why \in {"apply", "apply_undo"} =>
        /\ ~session.saved /\ ~session.failed
        /\ AgreeBut(lights, kept, unsure, job.light)
        /\ Remembers(kept, unsure, job.light, job.before)
        /\ job.why = "apply_undo" => job.wanted = job.before
Beginning ==
    h = "work" /\ job.why \in {"begin", "begin_undo", "begin_end"} =>
        /\ ~session.saved /\ ~session.failed /\ Lit /\ job.light = ident.light
        /\ job.why = "begin_end" => job.wanted = ident.value
Ending ==
    h = "work" /\ job.why \in {"end", "hangup"} =>
        /\ session.saved /\ Lit /\ job.light = ident.light /\ job.wanted = ident.value
        /\ job.why = "end" => ~session.failed
Tracked == Waiting /\ Serving /\ Applying /\ Beginning /\ Ending
IInv == Typed /\ Tracked

\* Writing one light back.
LEMMA OneLight ==
    ASSUME NEW L, NEW M, NEW K, NEW U, NEW k \in Lights, NEW v,
           AgreeBut(L, K, U, k), \A l \in Lights \ {k} : M[l] = L[l]
    PROVE  /\ AgreeBut(M, K, U, k)
           /\ Remembers(K, U, k, v) /\ M[k] = v => Agree(M, K, U)
  BY DEF AgreeBut, Agree, Remembers

\* The states a step goes to in which nothing is claimed.
LEMMA NothingClaimed ==
    ASSUME h' \in {"off", "open", "exit", "base", "flow"} PROVE Tracked'
  BY DEF Tracked, Waiting, Serving, Applying, Beginning, Ending

LEMMA ExitWork ==
    ASSUME h' = "work", job'.why \in {"exit_end", "base"} PROVE Tracked'
  BY DEF Tracked, Waiting, Serving, Applying, Beginning, Ending

LEMMA Quiet ==
    ASSUME IInv, lights' = lights, kept' = kept, unsure' = unsure, ident' = ident, session' = session,
           job' = job, h' = h \/ (h = "serve" /\ h' = "hangup")
    PROVE  Tracked'
<1>1. Lit => Lit'
  BY DEF Lit
<1>2. Waiting' /\ Serving'
  BY <1>1 DEF IInv, Tracked, Waiting, Serving
<1>3. Applying' /\ Beginning' /\ Ending'
  BY <1>1 DEF IInv, Tracked, Applying, Beginning, Ending
<1> QED
  BY <1>2, <1>3 DEF Tracked

LEMMA OpeningTracked ==
    ASSUME IInv, Start \/ OpenRefused \/ Snapshots \/ TakeFlow \/ Bind \/ StopSeen \/ ListenFails \/ Accept
    PROVE  Tracked'
<1>1. CASE Start \/ OpenRefused \/ StopSeen \/ ListenFails
  BY <1>1, NothingClaimed DEF Start, OpenRefused, StopSeen, ListenFails
<1>2. CASE Snapshots
  BY <1>2 DEF Snapshots, hardware, Tracked, Waiting, Serving, Applying, Beginning, Ending, Agree
<1>3. CASE TakeFlow \/ Bind
  <2>1. UNCHANGED <<lights, kept, unsure>> /\ Agree(lights, kept, unsure) /\ h' \in {"bind", "listen", "exit"}
    BY <1>3 DEF TakeFlow, Bind, hardware, history, IInv, Tracked, Waiting
  <2> QED
    BY <2>1 DEF Tracked, Waiting, Serving, Applying, Beginning, Ending
<1>4. CASE Accept
  <2>1. /\ UNCHANGED <<lights, kept, unsure>> /\ Agree(lights, kept, unsure) /\ h' = "serve"
        /\ session' = NoSession
    BY <1>4 DEF Accept, hardware, history, IInv, Tracked, Waiting
  <2>2. ~session'.saved /\ ~session'.failed
    BY <2>1 DEF NoSession
  <2> QED
    BY <2>1, <2>2 DEF Tracked, Waiting, Serving, Applying, Beginning, Ending
<1> QED
  BY <1>1, <1>2, <1>3, <1>4

\* An answer: the connection goes on, or ends.
LEMMA Answering ==
    ASSUME NEW answer, NEW failed \in BOOLEAN, Respond(answer, failed),
           ~failed => ~session'.failed, session'.saved => Lit',
           ~session'.saved /\ ~session'.failed => Agree(lights, kept, unsure)'
    PROVE  Tracked'
<1>1. h' \in {"hangup", "serve"} /\ (failed => h' = "hangup")
  BY DEF Respond
<1> QED
  BY <1>1 DEF Tracked, Waiting, Serving, Applying, Beginning, Ending

LEMMA ReceiveTracked ==
    ASSUME IInv, Receive
    PROVE  Tracked'
<1>1. /\ UNCHANGED <<lights, kept, unsure>> /\ h = "serve" /\ ~session.failed
      /\ session.saved => Lit
      /\ ~session.saved => Agree(lights, kept, unsure)
  BY DEF Receive, hardware, history, IInv, Tracked, Serving
<1>2. ASSUME NEW answer, Respond(answer, FALSE), UNCHANGED <<ident, session>>
      PROVE  Tracked'
  <2>1. Lit => Lit'
    BY <1>1, <1>2 DEF Lit
  <2>2. FALSE \in BOOLEAN
    OBVIOUS
  <2> QED
    BY <1>1, <1>2, <2>1, <2>2, Answering
<1>3. ASSUME Unconfirmed \/ Info \/ Read \/ GuardFails \/ Refuse PROVE Tracked'
  <2>1. (\E answer : Respond(answer, FALSE)) /\ UNCHANGED <<ident, session>>
    BY <1>3 DEF Unconfirmed, Info, Read, GuardFails, Refuse
  <2> QED
    BY <1>2, <2>1
<1>4. ASSUME Apply, ~Refuse PROVE Tracked'
  <2>1. PICK l \in Lights : /\ ~session.saved
                            /\ Work(Commit("apply", l, Patched, lights[l], FALSE))
                            /\ UNCHANGED <<confirmed, ident, session>>
    BY <1>4 DEF Apply
  <2>2. h' = "work" /\ job'.why = "apply" /\ job'.light = l /\ job'.before = lights[l]
    BY <2>1 DEF Work, Commit
  <2>3. AgreeBut(lights, kept, unsure, l) /\ Remembers(kept, unsure, l, lights[l])
    BY <1>1, <2>1 DEF Agree, AgreeBut, Remembers
  <2>4. Applying'
    BY <1>1, <2>1, <2>2, <2>3 DEF Applying
  <2> QED
    BY <2>2, <2>4 DEF Tracked, Waiting, Serving, Beginning, Ending
<1>5. ASSUME Begin, ~Refuse PROVE Tracked'
  <2>1. PICK l \in Lights : /\ ~session.saved
                            /\ ident' = [on |-> TRUE, light |-> l, value |-> lights[l]]
                            /\ Work(Commit("begin", l, Effect, lights[l], FALSE))
                            /\ UNCHANGED <<confirmed, session>>
    BY <1>5 DEF Begin
  <2>2. h' = "work" /\ job'.why = "begin" /\ job'.light = l /\ ident'.light = l /\ ident'.value = lights[l]
    BY <2>1 DEF Work, Commit
  <2>3. AgreeBut(lights, kept, unsure, l) /\ Remembers(kept, unsure, l, lights[l])
    BY <1>1, <2>1 DEF Agree, AgreeBut, Remembers
  <2>4. Lit'
    BY <1>1, <2>2, <2>3 DEF Lit
  <2>5. Beginning'
    BY <1>1, <2>1, <2>2, <2>4 DEF Beginning
  <2> QED
    BY <2>2, <2>5 DEF Tracked, Waiting, Serving, Applying, Ending
<1>6. ASSUME End, ~Refuse PROVE Tracked'
  <2>1. /\ session.saved /\ Work(Restore("end", ident.light, ident.value))
        /\ UNCHANGED <<confirmed, ident, session>>
    BY <1>6 DEF End
  <2>2. h' = "work" /\ job'.why = "end" /\ job'.light = ident.light /\ job'.wanted = ident.value
    BY <2>1 DEF Work, Restore, Commit
  <2>3. Lit'
    BY <1>1, <2>1 DEF Lit
  <2>4. Ending'
    BY <1>1, <2>1, <2>2, <2>3 DEF Ending
  <2> QED
    BY <2>2, <2>4 DEF Tracked, Waiting, Serving, Applying, Beginning
<1> QED
  BY <1>3, <1>4, <1>5, <1>6 DEF Receive

LEMMA WriteByteTracked ==
    ASSUME IInv, WriteByte
    PROVE  Tracked'
<1>1. /\ job.light \in Lights /\ \A k \in Lights \ {job.light} : lights'[k] = lights[k]
  BY WriteByteTyped DEF IInv, Typed, JobOK, Job
<1>2. /\ job'.why = job.why /\ job'.light = job.light /\ job'.wanted = job.wanted
      /\ job'.before = job.before
  <2>1. job \in Job
    BY DEF IInv, Typed, JobOK
  <2>2. job' = [job EXCEPT !.todo = Tail(job.todo)]
    BY DEF WriteByte
  <2> QED
    BY <2>1, <2>2 DEF Job
<1>3. UNCHANGED <<h, kept, unsure, ident, session>> /\ h = "work"
  BY DEF WriteByte, history
<1>4. AgreeBut(lights, kept, unsure, job.light) => AgreeBut(lights', kept, unsure, job.light)
  BY <1>1, OneLight
<1>5. Lit /\ job.light = ident.light => Lit'
  BY <1>3, <1>4 DEF Lit
<1>6. Applying'
  BY <1>2, <1>3, <1>4 DEF IInv, Tracked, Applying
<1>7. Beginning' /\ Ending'
  BY <1>2, <1>3, <1>5 DEF IInv, Tracked, Beginning, Ending
<1> QED
  BY <1>3, <1>6, <1>7 DEF Tracked, Waiting, Serving

\* Every exit of commit.
LEMMA CommitTracked ==
    ASSUME IInv, CommitDone \/ CommitFails
    PROVE  Tracked'
<1>1. /\ job.light \in Lights /\ \A k \in Lights \ {job.light} : lights'[k] = lights[k]
      /\ lights' \in [Lights -> Raw] /\ kept \in [Lights -> Raw]
  BY CommitTyped DEF IInv, Typed, JobOK, Job, HardwareOK
<1>2. PICK ok \in BOOLEAN : Finish(ok) /\ (ok => lights'[job.light] = job.wanted)
  BY DEF CommitDone, CommitFails, hardware
<1>3. h = "work"
  BY DEF CommitDone, CommitFails
<1> DEFINE l == job.light
<1>4. /\ AgreeBut(lights, kept, unsure, l) => AgreeBut(lights', kept, unsure, l)
      /\ AgreeBut(lights, kept, unsure, l) /\ Remembers(kept, unsure, l, job.wanted) /\ ok
           => Agree(lights', kept, unsure)
  BY <1>1, <1>2, OneLight
<1>5. CASE job.why = "apply" /\ ok
  <2>1. /\ kept' = [kept EXCEPT ![l] = job.wanted] /\ unsure' = unsure \ {l}
        /\ Respond("ok", FALSE) /\ UNCHANGED <<ident, session>>
    BY <1>2, <1>5 DEF Finish
  <2>2. ~session.saved /\ ~session.failed /\ AgreeBut(lights, kept, unsure, l)
    BY <1>3, <1>5 DEF IInv, Tracked, Applying
  <2>3. Agree(lights', kept', unsure')
    BY <1>1, <1>2, <1>4, <1>5, <2>1, <2>2 DEF AgreeBut, Agree
  <2> QED
    BY <2>1, <2>2, <2>3, Answering
<1>6. CASE job.why = "apply" /\ ~ok
  <2>1. Work(Restore("apply_undo", l, job.before)) /\ UNCHANGED <<ident, session, kept, unsure>>
    BY <1>2, <1>6 DEF Finish, history
  <2>2. /\ h' = "work" /\ job'.why = "apply_undo" /\ job'.light = l /\ job'.wanted = job.before
        /\ job'.before = job.before
    BY <2>1 DEF Work, Restore, Commit
  <2>3. /\ ~session.saved /\ ~session.failed /\ AgreeBut(lights, kept, unsure, l)
        /\ Remembers(kept, unsure, l, job.before)
    BY <1>3, <1>6 DEF IInv, Tracked, Applying
  <2>4. Applying'
    BY <1>4, <2>1, <2>2, <2>3 DEF Applying
  <2> QED
    BY <2>2, <2>4 DEF Tracked, Waiting, Serving, Beginning, Ending
<1>7. CASE job.why = "apply_undo"
  <2>1. /\ unsure' = (IF ok THEN unsure ELSE unsure \cup {l})
        /\ kept' = (IF ok THEN kept ELSE [kept EXCEPT ![l] = Effect])
        /\ Respond("error", FALSE) /\ UNCHANGED <<ident, session>>
    BY <1>2, <1>7 DEF Finish
  <2>2. /\ ~session.saved /\ ~session.failed /\ AgreeBut(lights, kept, unsure, l)
        /\ Remembers(kept, unsure, l, job.wanted)
    BY <1>3, <1>7 DEF IInv, Tracked, Applying
  <2>3. CASE ok
    <3>1. Agree(lights', kept', unsure')
      BY <1>4, <2>1, <2>2, <2>3
    <3> QED
      BY <2>1, <2>2, <3>1, Answering
  <2>4. CASE ~ok
    <3>1. \A k \in Lights \ {l} : kept'[k] = kept[k]
      <4>1. kept \in [Lights -> Raw]
        BY DEF IInv, Typed, HardwareOK
      <4> QED
        BY <2>1, <2>4, <4>1
    <3>2. Agree(lights', kept', unsure')
      BY <1>4, <2>1, <2>2, <2>4, <3>1 DEF Agree, AgreeBut
    <3> QED
      BY <2>1, <2>2, <3>2, Answering
  <2> QED
    BY <2>3, <2>4
<1>8. CASE job.why \in {"begin", "begin_undo", "begin_end"}
  <2>1. ~session.saved /\ ~session.failed /\ Lit /\ l = ident.light
    BY <1>3, <1>8 DEF IInv, Tracked, Beginning
  <2>2. UNCHANGED <<kept, unsure>>
    BY <1>2, <1>8 DEF Finish, history
  <2>3. UNCHANGED ident => Lit'
    BY <1>4, <2>1, <2>2 DEF Lit
  <2>4. CASE job.why = "begin" /\ ok
    <3>1. UNCHANGED ident /\ session' = [session EXCEPT !.saved = TRUE] /\ Respond("ok", FALSE)
      BY <1>2, <2>4 DEF Finish
    <3>2. session'.saved /\ ~session'.failed
      BY <2>1, <3>1, SessionUpdates DEF IInv, Typed, SessionOK
    <3> QED
      BY <2>3, <3>1, <3>2, Answering
  <2>5. CASE (job.why = "begin" /\ ~ok) \/ job.why = "begin_undo"
    <3>1. /\ UNCHANGED <<ident, session>>
          /\ \/ Work(Restore("begin_undo", l, job.before))
             \/ Work(Restore("begin_end", l, ident.value))
      BY <1>2, <2>5 DEF Finish
    <3>2. /\ h' = "work" /\ job'.why \in {"begin_undo", "begin_end"} /\ job'.light = l
          /\ job'.why = "begin_end" => job'.wanted = ident.value
      <4>1. CASE Work(Restore("begin_undo", l, job.before))
        <5>1. h' = "work" /\ job'.why = "begin_undo" /\ job'.light = l
          BY <4>1 DEF Work, Restore, Commit
        <5> QED
          BY <5>1
      <4>2. CASE Work(Restore("begin_end", l, ident.value))
        <5>1. h' = "work" /\ job'.why = "begin_end" /\ job'.light = l /\ job'.wanted = ident.value
          BY <4>2 DEF Work, Restore, Commit
        <5> QED
          BY <5>1
      <4> QED
        BY <3>1, <4>1, <4>2
    <3>3. Beginning'
      BY <2>1, <2>3, <3>1, <3>2 DEF Beginning
    <3> QED
      BY <3>2, <3>3 DEF Tracked, Waiting, Serving, Applying, Ending
  <2>6. CASE job.why = "begin_end" /\ ok
    <3>1. session' = [saved |-> FALSE, failed |-> FALSE] /\ Respond("error", FALSE)
      BY <1>2, <2>6 DEF Finish
    <3>2. job.wanted = ident.value
      BY <1>3, <2>6 DEF IInv, Tracked, Beginning
    <3>3. Agree(lights', kept', unsure')
      BY <1>4, <2>1, <2>2, <2>6, <3>2 DEF Lit
    <3> QED
      BY <3>1, <3>3, Answering
  <2>7. CASE job.why = "begin_end" /\ ~ok
    <3>1. UNCHANGED ident /\ session' = [saved |-> TRUE, failed |-> TRUE] /\ Respond("error", TRUE)
      BY <1>2, <2>7 DEF Finish
    <3> QED
      BY <2>3, <3>1, Answering
  <2> QED
    BY <1>8, <2>4, <2>5, <2>6, <2>7
<1>9. CASE job.why \in {"end", "hangup"}
  <2>1. session.saved /\ Lit /\ l = ident.light /\ job.wanted = ident.value
    BY <1>3, <1>9 DEF IInv, Tracked, Ending
  <2>2. UNCHANGED <<kept, unsure>>
    BY <1>2, <1>9 DEF Finish, history
  <2>3. UNCHANGED ident => Lit'
    BY <1>4, <2>1, <2>2 DEF Lit
  <2>4. ok => Agree(lights', kept', unsure')
    BY <1>4, <2>1, <2>2 DEF Lit
  <2>5. CASE job.why = "end" /\ ok
    <3>1. Respond("ok", FALSE) /\ session' = [session EXCEPT !.saved = FALSE]
      BY <1>2, <2>5 DEF Finish
    <3>2. ~session.failed
      BY <1>3, <2>5 DEF IInv, Tracked, Ending
    <3>3. ~session'.saved /\ ~session'.failed
      BY <3>1, <3>2, SessionUpdates DEF IInv, Typed, SessionOK
    <3> QED
      BY <2>4, <2>5, <3>1, <3>3, Answering
  <2>6. CASE job.why = "end" /\ ~ok
    <3>1. Respond("error", TRUE) /\ session' = [session EXCEPT !.failed = TRUE] /\ UNCHANGED ident
      BY <1>2, <2>6 DEF Finish
    <3>2. session'.saved /\ session'.failed
      BY <2>1, <3>1, SessionUpdates DEF IInv, Typed, SessionOK
    <3> QED
      BY <2>3, <3>1, <3>2, Answering
  <2>7. CASE job.why = "hangup"
    <3>1. h' = "hangup" /\ session' = [saved |-> FALSE, failed |-> session.failed \/ ~ok]
      BY <1>2, <2>7 DEF Finish
    <3>2. ~session'.saved /\ (~session'.failed => ok)
      <4> DEFINE f == session.failed \/ ~ok
      <4>1. session' = [saved |-> FALSE, failed |-> f] /\ (~f => ok)
        BY <3>1
      <4> HIDE DEF f
      <4> QED
        BY <4>1
    <3> QED
      BY <2>4, <3>1, <3>2 DEF Tracked, Waiting, Serving, Applying, Beginning, Ending
  <2> QED
    BY <1>9, <2>5, <2>6, <2>7
<1>10. CASE job.why \in {"exit_end", "base"}
  <2>1. h' \in {"base", "flow"}
    BY <1>2, <1>10 DEF Finish
  <2> QED
    BY <2>1, NothingClaimed
<1>11. job.why \in {"apply", "apply_undo", "begin", "begin_undo", "begin_end", "end", "hangup",
                    "exit_end", "base"}
  BY <1>2 DEF Finish
<1> QED
  BY <1>5, <1>6, <1>7, <1>8, <1>9, <1>10, <1>11

LEMMA ClosingTracked ==
    ASSUME IInv, RestoreOnHangup \/ HungUp \/ CloseListener \/ RestoreHolder \/ AllRestored \/ Release
    PROVE  Tracked'
<1>1. CASE RestoreOnHangup
  <2>1. /\ session.saved /\ Lit /\ UNCHANGED <<lights, kept, unsure, ident, session>> /\ h' = "work"
        /\ job' = Restore("hangup", ident.light, ident.value)
    BY <1>1 DEF RestoreOnHangup, hardware, history, IInv, Tracked, Serving
  <2>2. job'.why = "hangup" /\ job'.light = ident.light /\ job'.wanted = ident.value
    BY <2>1 DEF Restore, Commit
  <2>3. Lit'
    BY <2>1 DEF Lit
  <2>4. Ending'
    BY <2>1, <2>2, <2>3 DEF Ending
  <2> QED
    BY <2>1, <2>2, <2>4 DEF Tracked, Waiting, Serving, Applying, Beginning
<1>2. CASE HungUp
  <2>1. h' = "exit" \/ (h' = "listen" /\ ~session.failed)
    BY <1>2 DEF HungUp
  <2>2. ~session.saved /\ h = "hangup" /\ UNCHANGED <<lights, kept, unsure>>
    BY <1>2 DEF HungUp, hardware, history
  <2>3. ~session.failed => Agree(lights, kept, unsure)
    BY <2>2 DEF IInv, Tracked, Serving
  <2> QED
    BY <2>1, <2>2, <2>3 DEF Tracked, Waiting, Serving, Applying, Beginning, Ending
<1>3. CASE CloseListener
  <2>1. h' = "base" \/ (h' = "work" /\ job' = Restore("exit_end", ident.light, ident.value))
    BY <1>3 DEF CloseListener
  <2>2. job' = Restore("exit_end", ident.light, ident.value) => job'.why = "exit_end"
    BY DEF Restore, Commit
  <2> QED
    BY <2>1, <2>2, NothingClaimed, ExitWork
<1>4. CASE RestoreHolder
  <2>1. h' = "flow" \/ (h' = "work" /\ \E l \in rest : job' = Restore("base", l, base.lights[l]))
    BY <1>4 DEF RestoreHolder
  <2>2. ASSUME NEW l \in rest, job' = Restore("base", l, base.lights[l]) PROVE job'.why = "base"
    BY <2>2 DEF Restore, Commit
  <2> QED
    BY <2>1, <2>2, NothingClaimed, ExitWork
<1>5. CASE AllRestored \/ Release
  BY <1>5, NothingClaimed DEF AllRestored, Release
<1> QED
  BY <1>1, <1>2, <1>3, <1>4, <1>5

LEMMA QuietTracked ==
    ASSUME IInv, Disconnected \/ Stop \/ Foreign \/ UNCHANGED vars \/ \E c \in Clients : ClientStep(c)
    PROVE  Tracked'
<1>1. CASE Disconnected \/ Stop \/ Foreign
  <2>1. UNCHANGED <<lights, kept, unsure, ident, session, job>>
    BY <1>1 DEF Disconnected, Stop, Foreign, hardware, memory, history
  <2>2. h' = h \/ (h = "serve" /\ h' = "hangup")
    BY <1>1 DEF Disconnected, Stop, Foreign
  <2> QED
    BY <2>1, <2>2, Quiet
<1>2. CASE UNCHANGED vars
  BY <1>2, Quiet DEF vars, hardware, memory, history
<1>3. ASSUME NEW c \in Clients, ClientStep(c) PROVE Tracked'
  <2>1. UNCHANGED <<hardware, h, memory, history>>
    BY <1>3 DEF ClientStep, Launch, Connect, Answered, Timeout, EndIdentify, Leave
  <2> QED
    BY <2>1, Quiet DEF hardware, memory, history
<1> QED
  BY <1>1, <1>2, <1>3

LEMMA NextTracked == IInv /\ [Next]_vars => IInv'
<1> SUFFICES ASSUME IInv, [Next]_vars PROVE IInv'
  OBVIOUS
<1>1. Typed'
  BY NextTyped DEF IInv
<1>2. Tracked'
  BY OpeningTracked, ReceiveTracked, WriteByteTracked, CommitTracked, ClosingTracked, QuietTracked
     DEF Next, HolderStep
<1> QED
  BY <1>1, <1>2 DEF IInv

(* A holder that waits for its next client shows on every light what the last         *)
(* successful APPLY, or the machine before it, left there, whichever way the          *)
(* connections before it ended (serve_connection, src/led/led_service.c:159-231);     *)
(* lights of an APPLY whose undoing failed, and that said so, are exempt.             *)
THEOREM RestoredBetweenClientsAlways == Spec => []RestoredBetweenClients
<1>1. Init => IInv
  <2>1. Init => Tracked
    BY DEF Init, Tracked, Waiting, Serving, Applying, Beginning, Ending
  <2> QED
    BY <2>1, InitTyped DEF IInv
<1>2. IInv /\ [Next]_vars => IInv'
  BY NextTracked
<1>3. IInv => RestoredBetweenClients
  BY DEF IInv, Tracked, Waiting, RestoredBetweenClients, Agree
<1> QED
  BY <1>1, <1>2, <1>3, PTL DEF Spec
=============================================================================
