---------------------------- MODULE ClientProofs ----------------------------
(* The client sends what is typed and shows what is answered, for any      *)
(* codes and any number of lines.                                          *)
EXTENDS ClientProperties, TLAPS

(* The place of the command thread decides what is typed and not sent yet: *)
(* as long as the connection is open and main() has not closed it, nothing *)
(* but the command about to be written, which the request holds.           *)
Connected == main \in {"connected", "creating", "joining"} /\ conn = "open"
Pending ==
    /\ request \in Codes /\ typed \in Seq(Codes) /\ sent \in Seq(Codes)
    /\ cmd = "absent" => typed = <<>> /\ sent = <<>>
    /\ cmd = "absent" <=> main \in {"connecting", "sleeping", "connected"}
    /\ conn = "none" => main \in {"connecting", "sleeping"}
    /\ cmd = "writing" => typed # <<>> /\ typed[Len(typed)] = request
    /\ Len(sent) <= Len(typed)
    /\ \A i \in 1 .. Len(sent) : sent[i] = typed[i]
    /\ cmd = "writing" => Len(sent) < Len(typed)
    /\ Connected => Len(typed) = Len(sent) + (IF cmd = "writing" THEN 1 ELSE 0)

(* A sequence that agrees with another as far as it goes is a prefix of it,*)
(* and equal to it if it is as long.                                       *)
LEMMA Agreeing ==
    ASSUME NEW S, NEW s \in Seq(S), NEW t \in Seq(S), Len(s) <= Len(t),
           \A i \in 1 .. Len(s) : s[i] = t[i]
    PROVE  IsPrefix(s, t) /\ (Len(s) = Len(t) => s = t)
<1>1. SubSeq(s, 1, Len(s)) = SubSeq(t, 1, Len(s))
  OBVIOUS
<1>. QED
  BY <1>1 DEF IsPrefix

(* What is neither the command thread's nor the connection's beginning     *)
(* changes nothing Pending speaks of, but for the end of the connection.   *)
Apart ==
    /\ UNCHANGED <<cmd, request, typed, sent>>
    /\ main' = main \/ (main \notin {"connecting", "sleeping", "connected"}
                        /\ main' \in {"joining", "closed", "exited", "killed"})
    /\ main' = "joining" => main \in {"creating", "joining"}
    /\ conn' # conn => conn # "none" /\ conn' \notin {"none", "open"}

LEMMA StayingApart ==
    ASSUME Pending, Apart
    PROVE  Pending'
BY DEF Pending, Apart, Connected

LEMMA StepKeeps ==
    ASSUME Pending, [Next]_vars
    PROVE  Pending'
<1>1. CASE Connect \/ ConnectFails \/ Retry
  BY <1>1 DEF Pending, Connected, Connect, ConnectFails, Retry, NewSocket, buffers, user, network
<1>2. CASE CreateCommand
  BY <1>2 DEF Pending, Connected, CreateCommand, buffers, user, network
<1>3. CASE CreateResponse \/ Join \/ Exit
  BY <1>3, StayingApart DEF Apart, CreateResponse, Join, Exit, buffers, user, network
<1>4. CASE ReadLine
  <2>1. PICK code \in Codes, form \in {"good", "extra", "lacking"} :
            /\ request' = IF form = "lacking" THEN request ELSE code
            /\ cmd' = IF Valid(form) THEN "writing" ELSE Looped(request')
            /\ typed' = IF form = "good" THEN Append(typed, code) ELSE typed
    BY <1>4 DEF ReadLine
  <2>2. cmd = "reading" /\ UNCHANGED <<main, conn, sent>>
    BY <1>4 DEF ReadLine, network
  <2>3. CASE form = "good"
    <3>1. typed' = Append(typed, code) /\ request' = code /\ cmd' = "writing"
      BY <2>1, <2>3 DEF Valid
    <3>2. /\ typed' \in Seq(Codes) /\ Len(typed') = Len(typed) + 1
          /\ \A i \in 1 .. Len(typed) : typed'[i] = typed[i]
          /\ typed'[Len(typed')] = code
      BY <3>1 DEF Pending
    <3>. QED
      BY <2>2, <3>1, <3>2 DEF Pending, Connected
  <2>4. CASE form # "good"
    <3>1. typed' = typed /\ request' \in Codes /\ cmd' \in {"ended", "reading"}
      BY <2>1, <2>4 DEF Valid, Looped, Pending
    <3>. QED
      BY <2>2, <3>1 DEF Pending, Connected
  <2>. QED
    BY <2>3, <2>4
<1>5. CASE InputEnds \/ Paused
  BY <1>5 DEF Pending, Connected, InputEnds, Paused, buffers, user, network
<1>6. CASE Write
  <2>1. /\ cmd = "writing" /\ cmd' \in {"ended", "pausing"}
        /\ main \in {"creating", "joining"} /\ UNCHANGED <<main, request, typed>>
    BY <1>6 DEF Write, Written, buffers, user
  <2>2. CASE conn = "open"
    <3>1. sent' = Append(sent, request) /\ conn' = conn
      BY <1>6, <2>2 DEF Write
    <3>2. /\ sent' \in Seq(Codes) /\ Len(sent') = Len(sent) + 1
          /\ \A i \in 1 .. Len(sent) : sent'[i] = sent[i]
          /\ sent'[Len(sent')] = request
      BY <3>1 DEF Pending
    <3>3. Len(typed) = Len(sent') /\ typed[Len(typed)] = request
      BY <2>1, <2>2, <3>2 DEF Pending, Connected
    <3>4. \A i \in 1 .. Len(sent') : sent'[i] = typed[i]
      BY <3>2, <3>3 DEF Pending
    <3>. QED
      BY <2>1, <2>2, <3>1, <3>2, <3>3, <3>4 DEF Pending, Connected
  <2>3. CASE conn # "open"
    <3>1. UNCHANGED sent /\ conn' \in {conn, "finw", "pipe"}
      BY <1>6, <2>3 DEF Write
    <3>. QED
      BY <2>1, <2>3, <3>1 DEF Pending, Connected
  <2>. QED
    BY <2>2, <2>3
<1>7. CASE WriteFails
  BY <1>7 DEF Pending, Connected, WriteFails, Written, buffers, user, network
<1>8. CASE BrokenPipe
  BY <1>8, StayingApart DEF Apart, BrokenPipe, buffers, user, network
<1>9. CASE ResponseStep \/ SelectTimeout
  BY <1>9, StayingApart
  DEF Apart, ResponseStep, SelectTimeout, ReadAnswer, ReadReset, ReadEof, buffers, network
<1>10. CASE ServerStep
  BY <1>10, StayingApart
  DEF Apart, ServerStep, Listen, TakeRequest, Wait, Answer, Close, ResetArrives, Talking,
      client, buffers, user, network
<1>11. CASE UNCHANGED vars
  BY <1>11, StayingApart DEF Apart, vars, client, buffers, user, network
<1>. QED
  BY <1>1, <1>2, <1>3, <1>4, <1>5, <1>6, <1>7, <1>8, <1>9, <1>10, <1>11
  DEF Next, MainStep, CommandStep

(* What reaches the server is what was typed, command for command, and     *)
(* nothing is left out while the connection is open: for any codes, any    *)
(* number of lines, and whatever server and network do.                    *)
THEOREM OnlyTypedIsSent == Spec => []SentIsTyped
<1>1. Init => Pending
  BY CodesAssumption DEF Init, Pending, Connected
<1>2. Pending => SentIsTyped
  BY Agreeing DEF Pending, Connected, SentIsTyped
<1>. QED
  BY <1>1, <1>2, StepKeeps, PTL DEF Spec

-----------------------------------------------------------------------------
(* What the server answers is shown.                                       *)

Notices == {"again", "closed_unexpectedly", "time_out"}
Read    == Len(answered) - Len(answers)     \* how many answers were read

(* The answers under way are the last ones, an acknowledgement of EXIT is  *)
(* the very last, and the lines printed are the answers read, then notices *)
(* that the connection is over.                                            *)
Showing ==
    /\ answered \in Seq(AnswerCodes) /\ answers \in Seq(AnswerCodes)
    /\ printed \in Seq(AnswerCodes \cup Notices)
    /\ Len(answers) <= Len(answered) /\ Read <= Len(printed)
    /\ \A n \in 1 .. Len(answers) : answers[n] = answered[Read + n]
    /\ \A n \in 1 .. Read : printed[n] = answered[n]
    /\ \A n \in 1 .. Len(printed) : n > Read => printed[n] \in Notices
    /\ \A n \in 1 .. Len(answered) :
          answered[n] = "ACCOUNT_EXIT" => n = Len(answered) /\ serving = "left"

(* Why the response thread has ended, and that main() waits for it.        *)
Ending ==
    /\ rsp = "absent" => printed = <<>>
    /\ main \in {"connecting", "sleeping", "connected", "creating"} => rsp = "absent"
    /\ main \in {"connecting", "sleeping"} => conn = "none"
    /\ main \in {"closed", "exited"} => rsp = "ended"
    /\ rsp # "ended" =>
          /\ \A n \in 1 .. Len(printed) : printed[n] \in AnswerCodes \cup {"again"}
          /\ \A n \in 1 .. Read : answered[n] # "ACCOUNT_EXIT"
          /\ Len(printed) > Read => conn = "pipe" /\ answers = <<>>
    /\ rsp = "ended" =>
          /\ printed # <<>>
          /\ \/ printed[Len(printed)] \in {"time_out", "again"}
             \/ /\ answers = <<>> /\ Len(printed) = Read
                /\ Read > 0 /\ answered[Read] = "ACCOUNT_EXIT"
             \/ /\ answers = <<>> /\ conn \notin {"none", "open"}
                /\ printed[Len(printed)] = "closed_unexpectedly"
                /\ \A n \in 1 .. Len(answered) : answered[n] # "ACCOUNT_EXIT"

(* What is neither the response thread's nor an answer leaves what is      *)
(* shown, and a connection that is over stays so.                          *)
Aside ==
    /\ UNCHANGED <<answered, answers, printed, rsp>>
    /\ serving = "left" => serving' = "left"
    /\ main' \in {"connecting", "sleeping", "connected", "creating"} => rsp = "absent"
    /\ main' \in {"connecting", "sleeping"} => conn' = "none"
    /\ main' \in {"closed", "exited"} => rsp = "ended"
    /\ conn' # conn => conn # "pipe" /\ (conn' # "open" \/ rsp = "absent")
    /\ conn' # "none" \/ conn = "none"
LEMMA AsideKeeps ==
    ASSUME Showing, Ending, Aside
    PROVE  Showing' /\ Ending'
BY DEF Showing, Ending, Aside, Read

(* One more answer, under way: an acknowledgement of EXIT comes from a     *)
(* server that leaves then.                                                *)
LEMMA AnswerKeeps ==
    ASSUME Showing, Ending, NEW code \in AnswerCodes, Reply(code),
           conn = "open", serving # "left",
           code = "ACCOUNT_EXIT" => serving' = "left",
           UNCHANGED <<client, printed, conn>>
    PROVE  Showing' /\ Ending'
<1>1. /\ answers \in Seq(AnswerCodes) /\ answered \in Seq(AnswerCodes)
      /\ answers' = Append(answers, code) /\ answered' = Append(answered, code)
  BY DEF Showing, Reply
<1>2. /\ answers' \in Seq(AnswerCodes) /\ answered' \in Seq(AnswerCodes)
      /\ Len(answers') = Len(answers) + 1 /\ Len(answered') = Len(answered) + 1
      /\ \A n \in 1 .. Len(answers) : answers'[n] = answers[n]
      /\ \A n \in 1 .. Len(answered) : answered'[n] = answered[n]
      /\ answers'[Len(answers) + 1] = code /\ answered'[Len(answered) + 1] = code
  BY <1>1
<1>3. Len(answers) \in Nat /\ Len(answered) \in Nat /\ Len(answers) <= Len(answered)
  BY <1>1 DEF Showing
<1>4. Read' = Read /\ Read \in Nat /\ Read <= Len(answered)
  BY <1>2, <1>3 DEF Read
<1>5. Read + Len(answers') = Len(answered')
  BY <1>2, <1>3 DEF Read
<1>6. \A n \in 1 .. Len(answers') : answers'[n] = answered'[Read + n]
  <2>1. ASSUME NEW n \in 1 .. Len(answers') PROVE answers'[n] = answered'[Read + n]
    <3>1. CASE n = Len(answers) + 1
      BY <1>2, <1>3, <1>4, <1>5, <3>1 DEF Read
    <3>2. CASE n # Len(answers) + 1
      <4>1. n \in 1 .. Len(answers) /\ Read + n \in 1 .. Len(answered)
        BY <1>2, <1>3, <1>4, <3>2 DEF Read
      <4> QED
        BY <1>2, <4>1 DEF Showing
    <3> QED
      BY <3>1, <3>2
  <2> QED
    BY <2>1
<1>7. \A n \in 1 .. Read : answered'[n] = answered[n]
  BY <1>2, <1>3, <1>4
<1>8. \A n \in 1 .. Len(answered') :
         answered'[n] = "ACCOUNT_EXIT" => n = Len(answered') /\ serving' = "left"
  <2>1. \A n \in 1 .. Len(answered) : answered'[n] # "ACCOUNT_EXIT"
    BY <1>2 DEF Showing
  <2>2. ASSUME NEW n \in 1 .. Len(answered'), answered'[n] = "ACCOUNT_EXIT"
        PROVE  n = Len(answered) + 1
    BY <1>2, <1>3, <2>1, <2>2
  <2> QED
    BY <1>2, <2>2
<1>9. Showing'
  BY <1>2, <1>3, <1>4, <1>6, <1>7, <1>8 DEF Showing
<1>10. Ending'
  <2>1. \A n \in 1 .. Len(answers) : n <= Len(answers)
    OBVIOUS
  <2>2. rsp = "ended" => printed[Len(printed)] \in {"time_out", "again"}
    <3>1. ASSUME Read > 0, answered[Read] = "ACCOUNT_EXIT" PROVE FALSE
      BY <1>4, <3>1 DEF Showing
    <3> QED
      BY <3>1 DEF Ending
  <2>3. Len(printed) > Read => rsp = "ended"
    BY DEF Ending
  <2>4. UNCHANGED <<main, rsp, printed, conn>>
    BY DEF client
  <2> QED
    BY <1>4, <1>7, <2>2, <2>3, <2>4 DEF Ending
<1> QED
  BY <1>9, <1>10

(* The response thread prints one more line.                               *)
LEMMA PrintKeeps ==
    ASSUME Showing, NEW line \in AnswerCodes \cup Notices, Shows(line),
           NEW unread \in Seq(AnswerCodes), answers' = unread,
           UNCHANGED <<answered, serving>>,
           \/ line \in Notices /\ unread = answers
           \/ /\ line \in AnswerCodes /\ Len(printed) = Read
              /\ answers # <<>> /\ line = Head(answers) /\ unread = Tail(answers)
    PROVE  /\ Showing'
           /\ Len(printed') = Len(printed) + 1 /\ printed'[Len(printed')] = line
           /\ \A n \in 1 .. Len(printed) : printed'[n] = printed[n]
           /\ Read' = IF line \in AnswerCodes THEN Read + 1 ELSE Read
<1>1. /\ printed' \in Seq(AnswerCodes \cup Notices)
      /\ Len(printed') = Len(printed) + 1 /\ printed'[Len(printed) + 1] = line
      /\ \A n \in 1 .. Len(printed) : printed'[n] = printed[n]
  BY DEF Showing, Shows
<1>2. /\ Len(answers) \in Nat /\ Len(answered) \in Nat /\ Len(printed) \in Nat
      /\ Len(answers) <= Len(answered) /\ Read \in Nat /\ Read <= Len(printed)
      /\ Len(answered) = Read + Len(answers)
  BY DEF Showing, Read
<1>3. AnswerCodes \cap Notices = {}
  BY DEF AnswerCodes, Notices
<1>4. CASE line \in Notices
  <2>1. answers' = answers /\ Read' = Read
    BY <1>3, <1>4 DEF Read
  <2>2. \A n \in 1 .. Len(printed') : n > Read' => printed'[n] \in Notices
    <3>1. ASSUME NEW n \in 1 .. Len(printed'), n > Read PROVE printed'[n] \in Notices
      <4>1. n = Len(printed) + 1 \/ n \in 1 .. Len(printed)
        BY <1>1, <1>2
      <4> QED
        BY <1>1, <1>4, <3>1, <4>1 DEF Showing
    <3> QED
      BY <2>1, <3>1
  <2>3. \A n \in 1 .. Read' : printed'[n] = answered'[n]
    BY <1>1, <1>2, <2>1 DEF Showing
  <2>4. Showing'
    BY <1>1, <1>2, <2>1, <2>2, <2>3 DEF Showing
  <2> QED
    BY <1>1, <1>3, <1>4, <2>1, <2>4
<1>5. CASE line \in AnswerCodes
  <2>1. /\ Len(printed) = Read /\ answers # <<>> /\ line = Head(answers)
        /\ answers' = Tail(answers) /\ answers \in Seq(AnswerCodes)
    BY <1>3, <1>5 DEF Showing
  <2>2. /\ Len(answers') = Len(answers) - 1 /\ line = answers[1] /\ Len(answers) > 0
        /\ \A n \in 1 .. Len(answers') : answers'[n] = answers[n + 1]
    BY <2>1
  <2>3. Read' = Read + 1
    BY ONLY <1>2, <2>2, UNCHANGED <<answered, serving>> DEF Read
  <2>4. line = answered[Read + 1]
    BY <1>2, <2>2 DEF Showing
  <2>5. \A n \in 1 .. Read' : printed'[n] = answered'[n]
    BY <1>1, <1>2, <2>1, <2>3, <2>4 DEF Showing
  <2>6. \A n \in 1 .. Len(answers') : answers'[n] = answered'[Read' + n]
    <3>1. ASSUME NEW n \in 1 .. Len(answers') PROVE answers'[n] = answered'[Read' + n]
      <4>1. n + 1 \in 1 .. Len(answers) /\ Read' + n = Read + (n + 1)
        BY <1>2, <2>2, <2>3
      <4> QED
        BY <2>2, <4>1 DEF Showing
    <3> QED
      BY <3>1
  <2>7. /\ answered' \in Seq(AnswerCodes) /\ answers' \in Seq(AnswerCodes)
        /\ Len(answers') <= Len(answered') /\ Read' <= Len(printed')
    <3>1. Len(answers') <= Len(answered') /\ Read' <= Len(printed')
      BY ONLY <1>1, <1>2, <2>1, <2>2, <2>3, UNCHANGED <<answered, serving>>
    <3> QED
      BY <2>1, <3>1 DEF Showing
  <2>8. \A n \in 1 .. Len(printed') : ~(n > Read')
    BY <1>1, <1>2, <2>1, <2>3
  <2>9. Showing'
    BY <1>1, <2>5, <2>6, <2>7, <2>8 DEF Showing
  <2> QED
    BY <1>1, <1>5, <2>3, <2>9
<1> QED
  BY <1>4, <1>5

(* An answer read is printed; the one to EXIT ends the thread.             *)
LEMMA ReadAnswerKeeps ==
    ASSUME Showing, Ending, ReadAnswer
    PROVE  Showing' /\ Ending'
<1>1. /\ rsp = "selecting" /\ answers # <<>> /\ answers \in Seq(AnswerCodes)
      /\ answers' = Tail(answers) /\ Shows(Head(answers))
      /\ rsp' = After(Head(answers))
      /\ UNCHANGED <<main, conn, answered, serving>>
  BY DEF ReadAnswer, server, Showing
<1>2. PICK line, unread : line = Head(answers) /\ unread = Tail(answers)
  OBVIOUS
<1>3. line \in AnswerCodes /\ unread \in Seq(AnswerCodes)
  BY <1>1, <1>2
<1>4. /\ Len(answers) \in Nat /\ Len(answered) \in Nat /\ Len(printed) \in Nat
      /\ Read = Len(answered) - Len(answers) /\ Read <= Len(printed)
      /\ printed \in Seq(AnswerCodes \cup Notices)
  BY DEF Showing, Read
<1>5. Len(printed) = Read
  <2>1. ~(Len(printed) > Read)
    BY <1>1 DEF Ending
  <2> QED
    BY <1>4, <2>1
<1>6. /\ Showing' /\ Len(printed') = Len(printed) + 1
      /\ printed'[Len(printed')] = line
      /\ \A n \in 1 .. Len(printed) : printed'[n] = printed[n]
      /\ Read' = Read + 1
  BY <1>1, <1>2, <1>3, <1>5, PrintKeeps
<1>7. /\ \A n \in 1 .. Read : answered[n] # "ACCOUNT_EXIT"
      /\ \A n \in 1 .. Len(printed) : printed[n] \in AnswerCodes \cup {"again"}
      /\ main \notin {"connecting", "sleeping", "connected", "creating", "closed", "exited"}
  BY <1>1 DEF Ending
<1>8. Read' \in 1 .. Len(printed') /\ Read' <= Len(answered) /\ answered[Read'] = line
  <2>1. Read' <= Len(answered)
    BY <1>1, <1>4, <1>6
  <2>2. Read' \in 1 .. Read' /\ Len(printed') = Read'
    BY <1>4, <1>5, <1>6
  <2>3. printed'[Read'] = answered'[Read']
    BY <1>6, <2>2 DEF Showing
  <2> QED
    BY <1>1, <1>6, <2>1, <2>2, <2>3
<1>9. Len(printed') = Read' /\ printed' # <<>>
  BY <1>4, <1>5, <1>6
<1>10. \A n \in 1 .. Len(printed') : printed'[n] \in AnswerCodes \cup {"again"}
  <2>1. ASSUME NEW n \in 1 .. Len(printed') PROVE printed'[n] \in AnswerCodes \cup {"again"}
    <3>1. n = Len(printed') \/ n \in 1 .. Len(printed)
      BY <1>4, <1>6
    <3> QED
      BY <1>3, <1>6, <1>7, <3>1
  <2> QED
    BY <2>1
<1>11. CASE line # "ACCOUNT_EXIT"
  <2>1. rsp' = "selecting"
    BY <1>1, <1>2, <1>11 DEF After
  <2>2. \A n \in 1 .. Read' : answered'[n] # "ACCOUNT_EXIT"
    <3>1. ASSUME NEW n \in 1 .. Read' PROVE answered[n] # "ACCOUNT_EXIT"
      <4>1. n = Read' \/ n \in 1 .. Read
        BY <1>4, <1>6
      <4> QED
        BY <1>7, <1>8, <1>11, <4>1
    <3> QED
      BY <1>1, <3>1
  <2>3. ~(Len(printed') > Read')
    BY <1>4, <1>6, <1>9
  <2> QED
    BY <1>1, <1>6, <1>7, <1>10, <2>1, <2>2, <2>3 DEF Ending
<1>12. CASE line = "ACCOUNT_EXIT"
  <2>1. rsp' = "ended"
    BY <1>1, <1>2, <1>12 DEF After
  <2>2. Read' = Len(answered)
    <3>1. Read' \in 1 .. Len(answered)
      BY <1>4, <1>6, <1>8
    <3> QED
      BY <1>8, <1>12, <3>1 DEF Showing
  <2>3. answers' = <<>>
    <3>1. Len(answers') = 0
      <4>1. Len(answers') = Len(answered') - Read'
        BY ONLY <1>1, <1>4, <1>6 DEF Read, Showing
      <4> QED
        BY ONLY <1>1, <1>4, <2>2, <4>1
    <3> QED
      BY <1>1, <3>1
  <2>4. Read' > 0 /\ answered'[Read'] = "ACCOUNT_EXIT"
    BY <1>1, <1>4, <1>6, <1>8, <1>12
  <2> QED
    BY <1>1, <1>6, <1>7, <1>9, <2>1, <2>3, <2>4 DEF Ending
<1> QED
  BY <1>11, <1>12

(* The other lines are notices: a reset seen once more, or the end.        *)
LEMMA NoticeKeeps ==
    ASSUME Showing, Ending, ReadReset \/ ReadEof \/ SelectTimeout
    PROVE  Showing' /\ Ending'
<1>1. PICK line \in Notices :
        /\ Shows(line)
        /\ \/ /\ line = "again" /\ answers = <<>> /\ conn' = "pipe"
              /\ rsp' \in {"selecting", "ended"}
           \/ /\ line = "closed_unexpectedly" /\ answers = <<>> /\ rsp' = "ended"
              /\ conn' \notin {"none", "open"}
           \/ line = "time_out" /\ rsp' = "ended"
  BY DEF ReadReset, ReadEof, SelectTimeout, Notices, network
<1>2. rsp = "selecting" /\ UNCHANGED <<main, answers, answered, serving>>
  BY DEF ReadReset, ReadEof, SelectTimeout, network, server
<1>3. PICK unread : unread = answers
  OBVIOUS
<1>4. line \notin AnswerCodes
  BY DEF AnswerCodes, Notices
<1>5. unread \in Seq(AnswerCodes) /\ answers' = unread
  BY <1>2, <1>3 DEF Showing
<1>6. /\ Showing' /\ Len(printed') = Len(printed) + 1
      /\ printed'[Len(printed')] = line
      /\ \A n \in 1 .. Len(printed) : printed'[n] = printed[n]
      /\ Read' = Read
  BY <1>1, <1>2, <1>3, <1>4, <1>5, PrintKeeps
<1>7. /\ \A n \in 1 .. Read : answered[n] # "ACCOUNT_EXIT"
      /\ \A n \in 1 .. Len(printed) : printed[n] \in AnswerCodes \cup {"again"}
      /\ main \notin {"connecting", "sleeping", "connected", "creating", "closed", "exited"}
  BY <1>2 DEF Ending
<1>8. Len(printed) \in Nat /\ printed' # <<>>
  BY <1>6 DEF Showing
<1>9. CASE rsp' = "ended"
  <2>1. CASE line # "closed_unexpectedly"
    BY <1>1, <1>2, <1>6, <1>7, <1>8, <1>9, <2>1 DEF Ending
  <2>2. CASE line = "closed_unexpectedly"
    <3>1. answers = <<>> /\ conn' \notin {"none", "open"}
      BY <1>1, <2>2
    <3>2. Read = Len(answered)
      BY <3>1 DEF Read, Showing
    <3> QED
      BY <1>2, <1>6, <1>7, <1>8, <1>9, <2>2, <3>1, <3>2 DEF Ending
  <2> QED
    BY <2>1, <2>2
<1>10. CASE rsp' # "ended"
  <2>1. line = "again" /\ answers = <<>> /\ conn' = "pipe" /\ rsp' = "selecting"
    BY <1>1, <1>10
  <2>2. \A n \in 1 .. Len(printed') : printed'[n] \in AnswerCodes \cup {"again"}
    BY <1>6, <1>7, <1>8, <2>1
  <2> QED
    BY <1>2, <1>6, <1>7, <1>8, <2>1, <2>2 DEF Ending
<1> QED
  BY <1>9, <1>10

(* Every step keeps what is shown and why the thread ends.                 *)
LEMMA StepShows ==
    ASSUME Showing, Ending, Pending, [Next]_vars
    PROVE  Showing' /\ Ending'
<1>1. CASE MainStep
  <2>1. CASE Connect \/ ConnectFails \/ Retry \/ CreateCommand
    BY <2>1, AsideKeeps
    DEF Aside, Ending, Pending, Connect, ConnectFails, Retry, NewSocket, CreateCommand,
        buffers, user, network, server
  <2>2. CASE Join \/ Exit
    BY <2>2, AsideKeeps
    DEF Aside, Ending, Join, Joinable, Exit, buffers, user, network, server
  <2>3. CASE CreateResponse
    <3>1. /\ rsp = "absent" /\ rsp' = "selecting" /\ main' = "joining"
          /\ UNCHANGED <<printed, answered, answers, conn, serving>>
      BY <2>3 DEF CreateResponse, Ending, user, network, server
    <3>2. printed = <<>> /\ Read = 0
      BY <3>1 DEF Ending, Showing, Read
    <3> QED
      BY <3>1, <3>2 DEF Showing, Ending, Read
  <2> QED
    BY <1>1, <2>1, <2>2, <2>3 DEF MainStep
<1>2. CASE CommandStep
  BY <1>2, AsideKeeps
  DEF Aside, Ending, CommandStep, ReadLine, InputEnds, Write, WriteFails, BrokenPipe,
      Paused, buffers, user, network, server
<1>3. CASE ReadAnswer
  BY <1>3, ReadAnswerKeeps
<1>4. CASE ReadReset \/ ReadEof \/ SelectTimeout
  BY <1>4, NoticeKeeps
<1>5. CASE Listen \/ TakeRequest \/ Close \/ ResetArrives
  BY <1>5, AsideKeeps
  DEF Aside, Ending, Listen, TakeRequest, Close, ResetArrives, Talking, client,
      buffers, user, network, server
<1>6. CASE Wait
  BY <1>6, AnswerKeeps DEF Wait, Talking, AnswerCodes, user
<1>7. CASE Answer
  <2>1. /\ conn = "open" /\ serving # "left" /\ UNCHANGED <<client, printed, conn>>
    BY <1>7 DEF Answer, Talking, user
  <2>2. \E code \in AnswerCodes : Reply(code) /\ (code = "ACCOUNT_EXIT" => serving' = "left")
    BY <1>7 DEF Answer, AnswerCodes
  <2> QED
    BY <2>1, <2>2, AnswerKeeps
<1>8. CASE UNCHANGED vars
  BY <1>8, AsideKeeps DEF Aside, Ending, vars, client, user, network, server
<1> QED
  BY <1>1, <1>2, <1>3, <1>4, <1>5, <1>6, <1>7, <1>8
  DEF Next, ResponseStep, ServerStep

(* The user sees every answer, in order and before any notice, and is told *)
(* of an unexpected end exactly when EXIT was not acknowledged, for any    *)
(* number of requests and however the client's threads and the server's    *)
(* end interleave (client.c's response thread and main).                   *)
THEOREM EveryAnswerIsSeen == Spec => []UserSeesAnswers
<1>1. Init => Pending /\ Showing /\ Ending
  <2> SUFFICES ASSUME Init PROVE Pending /\ Showing /\ Ending
    OBVIOUS
  <2>1. Pending
    BY CodesAssumption DEF Init, Pending, Connected
  <2>2. Showing /\ Ending
    BY DEF Init, Showing, Ending, Read
  <2> QED
    BY <2>1, <2>2
<1>2. Pending /\ Showing /\ Ending /\ [Next]_vars => (Pending /\ Showing /\ Ending)'
  BY StepKeeps, StepShows
<1>3. Showing /\ Ending => UserSeesAnswers
  <2> SUFFICES ASSUME Showing, Ending PROVE UserSeesAnswers
    OBVIOUS
  <2>0. /\ \A n : n \in DOMAIN printed <=> n \in 1 .. Len(printed)
        /\ \A n : n \in DOMAIN answered <=> n \in 1 .. Len(answered)
    BY DEF Showing
  <2>1. /\ Len(answered) \in Nat /\ Len(answers) \in Nat /\ Len(printed) \in Nat
        /\ Read \in Nat /\ Read <= Len(answered) /\ Read <= Len(printed)
        /\ answers = <<>> => Read = Len(answered)
    BY DEF Showing, Read
  <2>2. AnswerCodes \cap Notices = {}
    BY DEF AnswerCodes, Notices
  <2>3. \A n \in 1 .. Read : printed[n] = answered[n] /\ printed[n] \in AnswerCodes
    <3>1. answered \in Seq(AnswerCodes) /\ \A n \in 1 .. Read : printed[n] = answered[n]
      BY DEF Showing
    <3>2. \A n \in 1 .. Read : answered[n] \in AnswerCodes
      BY ONLY <2>1, <3>1
    <3> QED
      BY ONLY <3>1, <3>2
  <2>4. Told = 1 .. Read
    <3>1. ASSUME NEW n \in Told PROVE n \in 1 .. Read
      <4>1. n \in 1 .. Len(printed) /\ printed[n] \notin Notices
        BY ONLY <2>0, <2>1, <2>2, <3>1 DEF Told
      <4>2. ~(n > Read)
        BY <4>1 DEF Showing
      <4> QED
        BY ONLY <2>1, <4>1, <4>2
    <3>2. ASSUME NEW n \in 1 .. Read PROVE n \in Told
      BY ONLY <2>0, <2>1, <2>3, <3>2 DEF Told
    <3> QED
      BY <3>1, <3>2
  <2>5. \A n \in Told : /\ 1 .. n \subseteq Told
                        /\ n \in DOMAIN answered /\ printed[n] = answered[n]
    BY ONLY <2>0, <2>1, <2>3, <2>4
  <2>6. ASSUME main = "exited", Last(printed) \notin {"time_out", "again"}
        PROVE  /\ Told = DOMAIN answered
               /\ Contains(printed, "closed_unexpectedly") <=> ~Acknowledged
    <3>1. rsp = "ended" /\ printed # <<>>
      BY <2>6 DEF Ending
    <3>2. Len(printed) \in 1 .. Len(printed) /\ Last(printed) = printed[Len(printed)]
      <4>1. Len(printed) # 0
        BY <3>1 DEF Showing
      <4> QED
        BY ONLY <2>1, <4>1 DEF Last
    <3>3. CASE /\ answers = <<>> /\ Len(printed) = Read
               /\ Read > 0 /\ answered[Read] = "ACCOUNT_EXIT"
      <4>1. Acknowledged
        BY <2>1, <3>3 DEF Acknowledged, Contains
      <4>2. "closed_unexpectedly" \notin AnswerCodes
        BY DEF AnswerCodes
      <4>3. ~Contains(printed, "closed_unexpectedly")
        BY <2>1, <2>3, <3>3, <4>2 DEF Contains
      <4> QED
        BY <2>0, <2>1, <2>4, <3>3, <4>1, <4>3
    <3>4. CASE /\ answers = <<>>
               /\ printed[Len(printed)] = "closed_unexpectedly"
               /\ \A n \in 1 .. Len(answered) : answered[n] # "ACCOUNT_EXIT"
      <4>1. ~Acknowledged
        BY <3>4 DEF Acknowledged, Contains
      <4>2. Contains(printed, "closed_unexpectedly")
        BY <3>2, <3>4 DEF Contains
      <4> QED
        BY <2>0, <2>1, <2>4, <3>4, <4>1, <4>2
    <3> QED
      BY <2>6, <3>1, <3>2, <3>3, <3>4 DEF Ending
  <2> QED
    BY <2>5, <2>6 DEF UserSeesAnswers
<1> QED
  BY <1>1, <1>2, <1>3, PTL DEF Spec
=============================================================================
