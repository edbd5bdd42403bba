-------------------------- MODULE SocksConn_proofs --------------------------
(* One client connection, for all credentials and any number of chunks.      *)
EXTENDS SocksConn, TLAPS

\* A message of the negotiation is no answer; one after it is the answer.
LEMMA SayNothing ==
  ASSUME replies \in Seq(Messages), Answers = {},
         NEW message \in {"noAuth", "password", "authOK"}, Say(message)
  PROVE  replies' \in Seq(Messages) /\ Answers' = {}
BY DEF Say, Answers, Messages, Refusals

LEMMA SayAnswer ==
  ASSUME replies \in Seq(Messages), Answers = {},
         NEW message \in Refusals \cup {"success"}, Say(message)
  PROVE  /\ replies' \in Seq(Messages)
         /\ Answers' # {} /\ Answers' \subseteq {Len(replies')}
<1>1. replies' = Append(replies, message) /\ message \in Messages
  BY DEF Say, Messages
<1>2. replies' \in Seq(Messages) /\ Len(replies') = Len(replies) + 1
  BY <1>1
<1>3. \A i \in DOMAIN replies' : i # Len(replies') =>
         i \in DOMAIN replies /\ replies'[i] = replies[i]
  BY <1>1, <1>2
<1>4. replies'[Len(replies')] = message /\ Len(replies') \in DOMAIN replies'
  BY <1>1, <1>2
<1> QED BY <1>2, <1>3, <1>4 DEF Answers

LEMMA InitInv == Init => IInv
<1> SUFFICES ASSUME Init PROVE IInv
  OBVIOUS
<1> USE ConnAssumption DEF Init
<1>1. TypeOK
  BY DEF TypeOK, Stages, Ends, Directions
<1>2. AuthBeforeUse /\ AnsweredOnce /\ Answers = {}
  BY DEF AuthBeforeUse, AnsweredOnce, Answers
<1> QED BY <1>1, <1>2 DEF IInv, Talking, Chunks, Results, OneReportEach

\* The part of the state the negotiation never touches.
Flow == <<open, flowVars, copyVars, first>>

\* A step of the negotiation: it says something that is no answer and goes on,
\* or gives the answer and is over; or it only goes on.
LEMMA TalkPreserves ==
  ASSUME IInv, stage \in Talking, stage' \in Stages, UNCHANGED Flow,
         login' \in {<<>>} \cup Strings \X Strings, AuthBeforeUse',
         \/ stage' \in Talking
              /\ \/ UNCHANGED replies
                 \/ \E m \in {"noAuth", "password", "authOK"} : Say(m)
         \/ stage' \in {"leaving", "associated"}
              /\ \E m \in Refusals \cup {"success"} : Say(m)
  PROVE  IInv'
<1>1. /\ replies' \in Seq(Messages)
      /\ Answers' = {} <=> stage' \in Talking
      /\ Answers' \subseteq {Len(replies')}
  <2>1. replies \in Seq(Messages) /\ Answers = {}
    BY DEF IInv, TypeOK
  <2>2. CASE stage' \in Talking /\ UNCHANGED replies
    BY <2>1, <2>2 DEF Answers
  <2>3. CASE /\ stage' \in Talking
             /\ \E m \in {"noAuth", "password", "authOK"} : Say(m)
    BY <2>1, <2>3, SayNothing
  <2>4. CASE /\ stage' \in {"leaving", "associated"}
             /\ \E m \in Refusals \cup {"success"} : Say(m)
    BY <2>1, <2>4, SayAnswer DEF Talking
  <2> QED BY <2>2, <2>3, <2>4
<1>2. AnsweredOnce'
  BY <1>1 DEF AnsweredOnce, Talking
<1>3. TypeOK'
  BY <1>1 DEF IInv, TypeOK, Flow, flowVars, copyVars
<1>4. ("server" \in open <=> stage = "relay")'
  BY DEF IInv, Flow, Talking
<1>5. (\A d \in Directions : Chunks(d) /\ (stage \in Talking => copy[d] = "off"))'
  BY DEF IInv, Flow, flowVars, copyVars, Chunks, Complete
<1>6. Results' /\ OneReportEach'
  BY DEF IInv, Flow, flowVars, copyVars, Results, Complete, OneReportEach
<1>7. stage' # "done"
  BY DEF Talking
<1> QED BY <1>1, <1>2, <1>3, <1>4, <1>5, <1>6, <1>7 DEF IInv

\* Conn.Run up to the request, and the ends of it that connect nothing.
LEMMA TalkStep ==
  ASSUME IInv, Talk \/ DialFails \/ BindUDP
  PROVE  IInv'
<1> USE DEF Talking, Stages, Flow, Refusals
<1>0. login \in {<<>>} \cup Strings \X Strings /\ AuthBeforeUse
  BY DEF IInv, TypeOK
<1>1. CASE Greeting \/ BadGreeting
  BY <1>0, <1>1, TalkPreserves DEF Greeting, BadGreeting, Refuse, Method, NeedAuth,
     AuthBeforeUse
<1>2. CASE Authenticate
  <2>1. PICK user \in Strings, pwd \in Strings :
          login' = <<user, pwd>> /\ Verdict(Matches(user, pwd))
    BY <1>2 DEF Authenticate
  <2>2. stage = "auth" /\ UNCHANGED Flow
    BY <1>2 DEF Authenticate
  <2>3. CASE Matches(user, pwd)
    BY <2>1, <2>2, <2>3, TalkPreserves DEF Verdict, Matches, AuthBeforeUse
  <2>4. CASE ~Matches(user, pwd)
    BY <2>1, <2>2, <2>4, TalkPreserves DEF Verdict, Refuse, AuthBeforeUse
  <2> QED BY <2>3, <2>4
<1>3. CASE BadAuth
  BY <1>0, <1>3, TalkPreserves DEF BadAuth, Verdict, Refuse, AuthBeforeUse
<1>4. CASE Request \/ BadRequest
  BY <1>0, <1>4, TalkPreserves DEF Request, BadRequest, Refuse, AuthBeforeUse
<1>5. CASE DialFails \/ BindUDP
  BY <1>0, <1>5, TalkPreserves DEF DialFails, BindUDP, Refuse, AuthBeforeUse
<1> QED BY <1>1, <1>2, <1>3, <1>4, <1>5 DEF Talk

\* The destination is dialed, and the handler comes to its end.
LEMMA HandlerStep ==
  ASSUME IInv, DialSucceeds \/ AssociationEnds \/ HandlerReturns \/ Leave
  PROVE  IInv'
<1> USE DEF Talking, Stages, Ends, Directions
<1>1. CASE DialSucceeds
  <2>1. /\ replies' \in Seq(Messages)
        /\ Answers' # {} /\ Answers' \subseteq {Len(replies')}
    BY <1>1, SayAnswer DEF DialSucceeds, IInv, TypeOK
  <2>2. UNCHANGED <<login, broken, produced, taken, delivered, finished, errc, first>>
    BY <1>1 DEF DialSucceeds, flowVars
  <2>3. /\ stage = "dial" /\ stage' = "relay"
        /\ open' = open \cup {"server"}
        /\ copy' = [d \in Directions |-> "read"]
    BY <1>1 DEF DialSucceeds
  <2>4. TypeOK'
    BY <2>1, <2>2, <2>3 DEF IInv, TypeOK
  <2>5. (AuthBeforeUse /\ AnsweredOnce)'
    BY <2>1, <2>2, <2>3 DEF IInv, AuthBeforeUse, AnsweredOnce
  <2>6. (\A d \in Directions : Chunks(d))' /\ Results'
    BY <2>2, <2>3 DEF IInv, Chunks, Results, Complete
  <2>7. OneReportEach'
    <3>1. \A i \in DOMAIN errc : errc[i][1] \in Directions
      BY DEF IInv, TypeOK
    <3>2. \A d \in Directions : copy[d] # "ended"
      BY <2>3 DEF IInv
    <3>3. DOMAIN errc = {}
      BY <3>1, <3>2 DEF IInv, OneReportEach
    <3> QED BY <2>2, <3>3 DEF OneReportEach
  <2> QED BY <2>1, <2>3, <2>4, <2>5, <2>6, <2>7 DEF IInv
<1>2. CASE AssociationEnds \/ Leave
  <2>1. UNCHANGED <<talkVars, flowVars, copyVars, first>>
    BY <1>2 DEF AssociationEnds, Leave
  <2>2. /\ stage \in {"associated", "leaving"} /\ stage' \in {"leaving", "done"}
        /\ open' \in {open, open \ {"client"}}
    BY <1>2 DEF AssociationEnds, Leave
  <2>3. TypeOK'
    BY <2>1, <2>2 DEF IInv, TypeOK, talkVars, flowVars, copyVars
  <2>4. (AuthBeforeUse /\ AnsweredOnce)' /\ (Answers = {} <=> stage \in Talking)'
    BY <2>1, <2>2 DEF IInv, AuthBeforeUse, AnsweredOnce, Answers, talkVars
  <2>5. (\A d \in Directions : Chunks(d))' /\ Results' /\ OneReportEach'
    BY <2>1 DEF IInv, Chunks, Results, Complete, OneReportEach, flowVars, copyVars
  <2>6. stage' = "done" => open' = {}
    BY <1>2 DEF AssociationEnds, Leave, IInv, TypeOK
  <2> QED BY <2>2, <2>3, <2>4, <2>5, <2>6 DEF IInv
<1>3. CASE HandlerReturns
  <2>1. UNCHANGED <<talkVars, flowVars, copy, taken, delivered>>
    BY <1>3 DEF HandlerReturns
  <2>2. /\ stage = "relay" /\ stage' = "leaving" /\ errc # <<>>
        /\ first' = Head(errc) /\ errc' = Tail(errc)
        /\ open' = open \ {"server"}
    BY <1>3 DEF HandlerReturns, AfterTCP
  <2>3. /\ errc \in Seq(Directions \X {"eof", "error"})
        /\ Len(errc) \in Nat /\ Len(errc) # 0 /\ Len(errc) <= 2
    <3>1. errc \in Seq(Directions \X {"eof", "error"}) /\ Len(errc) <= 2
      BY DEF IInv, TypeOK
    <3>2. Len(errc) \in Nat /\ Len(errc) # 0
      BY <2>2, <3>1
    <3> QED BY <3>1, <3>2
  <2>4. /\ first' = errc[1] /\ errc[1] \in Directions \X {"eof", "error"}
        /\ errc' \in Seq(Directions \X {"eof", "error"})
        /\ Len(errc') = Len(errc) - 1
        /\ \A i \in DOMAIN errc' : i + 1 \in DOMAIN errc /\ errc'[i] = errc[i + 1]
    BY <2>2, <2>3
  <2>5. TypeOK'
    BY <2>1, <2>2, <2>3, <2>4 DEF IInv, TypeOK, talkVars, flowVars
  <2>6. (AuthBeforeUse /\ AnsweredOnce)' /\ (Answers = {} <=> stage \in Talking)'
    BY <2>1, <2>2 DEF IInv, AuthBeforeUse, AnsweredOnce, Answers, talkVars
  <2>7. (\A d \in Directions : Chunks(d))'
    BY <2>1 DEF IInv, Chunks, Complete, flowVars
  <2>8. Results'
    BY <2>1, <2>3, <2>4 DEF IInv, Results, Complete, flowVars
  <2>9. OneReportEach'
    <3>1. \A i \in DOMAIN errc' : copy'[errc'[i][1]] = "ended"
      BY <2>1, <2>4 DEF IInv, OneReportEach
    <3>2. ASSUME NEW i \in DOMAIN errc', NEW j \in DOMAIN errc',
                 errc'[i][1] = errc'[j][1]
          PROVE  i = j
      <4>1. i + 1 = j + 1
        BY <2>4, <3>2 DEF IInv, OneReportEach
      <4>2. i \in Nat /\ j \in Nat
        BY <2>4
      <4> QED BY <4>1, <4>2
    <3> QED BY <3>1, <3>2 DEF OneReportEach
  <2> QED BY <2>2, <2>5, <2>6, <2>7, <2>8, <2>9 DEF IInv
<1> QED BY <1>1, <1>2, <1>3

\* The client and the destination send, finish and vanish.
LEMMA PeerStep ==
  ASSUME IInv,
         \/ \E d \in Directions : Produce(d) \/ Finish(d)
         \/ \E e \in Ends : Break(e)
  PROVE  IInv'
<1>1. UNCHANGED <<stage, talkVars, open, copyVars, first>>
  BY DEF Produce, Finish, Break
<1>a. UNCHANGED <<stage, replies, login, open, copy, taken, delivered, errc, first>>
  BY <1>1 DEF talkVars, copyVars
<1>b. TypeOK
  BY DEF IInv
<1>2. TypeOK'
  <2>1. CASE \E d \in Directions : Produce(d)
    BY <1>1, <2>1, ConnAssumption
       DEF Produce, IInv, TypeOK, talkVars, copyVars
  <2>2. CASE \E d \in Directions : Finish(d)
    <3>1. /\ UNCHANGED <<produced, broken>>
          /\ finished' \in [Directions -> BOOLEAN]
      BY <1>b, <2>2 DEF Finish, TypeOK
    <3> QED BY <1>a, <1>b, <3>1 DEF TypeOK
  <2>3. CASE \E e \in Ends : Break(e)
    <3>1. UNCHANGED <<produced, finished>> /\ broken' \subseteq Ends
      BY <1>b, <2>3 DEF Break, TypeOK
    <3> QED BY <1>a, <1>b, <3>1 DEF TypeOK
  <2> QED BY <2>1, <2>2, <2>3
<1>3. (AuthBeforeUse /\ AnsweredOnce)' /\ (Answers = {} <=> stage \in Talking)'
  BY <1>1 DEF IInv, AuthBeforeUse, AnsweredOnce, Answers, talkVars, Talking
<1>4. ASSUME NEW d \in Directions, Complete(d) PROVE Complete(d)'
  <2>1. finished[d] /\ delivered[d] = produced[d]
    BY <1>4 DEF Complete
  <2>2. produced'[d] = produced[d]
    <3>1. ASSUME NEW o \in Directions, Produce(o) PROVE produced'[d] = produced[d]
      BY <1>b, <2>1, <3>1 DEF Produce, TypeOK
    <3> QED BY <3>1 DEF Finish, Break
  <2>3. finished'[d]
    BY <1>b, <2>1 DEF Produce, Finish, Break, TypeOK
  <2> QED BY <1>a, <2>1, <2>2, <2>3 DEF Complete
<1>5. (\A d \in Directions : Chunks(d) /\ (stage \in Talking => copy[d] = "off"))'
  BY <1>1, <1>4 DEF IInv, Chunks, copyVars, Talking
<1>6. Results'
  <2>1. /\ Results
        /\ \A i \in DOMAIN errc : errc[i][1] \in Directions
        /\ first # <<>> => first[1] \in Directions
    BY <1>b DEF IInv, TypeOK
  <2> QED BY <1>a, <1>4, <2>1 DEF Results
<1>7. OneReportEach' /\ (stage = "done" => open = {})'
  BY <1>1 DEF IInv, OneReportEach, copyVars
<1> QED BY <1>1, <1>2, <1>3, <1>5, <1>6, <1>7 DEF IInv, Talking

\* The two io.Copy goroutines.
LEMMA CopyStep ==
  ASSUME IInv, NEW d \in Directions, Copying(d)
  PROVE  IInv'
<1>1. UNCHANGED <<stage, talkVars, open, flowVars, first>>
  BY DEF Copying, CopyRead, CopyWrite, CopyReport
<1>2. copy[d] # "off" /\ \A o \in Directions \ {d} : UNCHANGED <<copy[o], taken[o], delivered[o]>>
  BY DEF Copying, CopyRead, CopyWrite, CopyReport, IInv, TypeOK
<1>3. TypeOK'
  <2>0. /\ copy \in [Directions -> {"off", "read", "write", "eof", "error", "ended"}]
        /\ produced \in [Directions -> 0 .. MaxChunks]
        /\ taken \in [Directions -> 0 .. MaxChunks]
        /\ delivered \in [Directions -> 0 .. MaxChunks]
        /\ MaxChunks \in Nat
    BY ConnAssumption DEF IInv, TypeOK
  <2>a. \A o \in Directions : /\ taken[o] <= produced[o]
                              /\ taken[o] \in delivered[o] .. delivered[o] + 1
    BY DEF IInv, TypeOK
  <2>1. CASE CopyRead(d)
    <3>1. /\ taken' \in [Directions -> 0 .. MaxChunks]
          /\ copy' \in [Directions -> {"off", "read", "write", "eof", "error", "ended"}]
          /\ UNCHANGED <<produced, finished, broken, delivered, errc>>
      BY <2>0, <2>1 DEF CopyRead, flowVars
    <3>2. \A o \in Directions : /\ taken'[o] <= produced[o]
                                /\ taken'[o] \in delivered[o] .. delivered[o] + 1
      <4>1. copy[d] = "read" /\ delivered[d] = taken[d]
        BY <2>1 DEF CopyRead, IInv, Chunks
      <4> QED BY <2>0, <2>a, <2>1, <4>1 DEF CopyRead
    <3> QED BY <1>1, <3>1, <3>2 DEF IInv, TypeOK, talkVars
  <2>2. CASE CopyWrite(d)
    <3>1. taken[d] = delivered[d] + 1
      BY <2>2 DEF CopyWrite, IInv, Chunks
    <3>2. /\ delivered' \in [Directions -> 0 .. MaxChunks]
          /\ copy' \in [Directions -> {"off", "read", "write", "eof", "error", "ended"}]
          /\ UNCHANGED <<produced, finished, broken, taken, errc>>
      BY <2>0, <2>2, <3>1 DEF CopyWrite, AfterFailedWrite, flowVars
    <3>3. \A o \in Directions : taken[o] \in delivered'[o] .. delivered'[o] + 1
      BY <2>0, <2>a, <2>2, <3>1 DEF CopyWrite
    <3> QED BY <1>1, <3>2, <3>3 DEF IInv, TypeOK, talkVars
  <2>3. CASE CopyReport(d)
    <3>1. /\ copy[d] \in {"eof", "error"} /\ Len(errc) < 2
          /\ errc' = Append(errc, <<d, copy[d]>>)
          /\ copy' = [copy EXCEPT ![d] = "ended"]
          /\ UNCHANGED <<taken, delivered>>
      BY <2>3 DEF CopyReport, Room
    <3>2. errc' \in Seq(Directions \X {"eof", "error"}) /\ Len(errc') <= 2
      BY <3>1 DEF IInv, TypeOK
    <3> QED BY <1>1, <3>1, <3>2 DEF IInv, TypeOK, talkVars, flowVars
  <2> QED BY <2>1, <2>2, <2>3 DEF Copying
<1>4. (AuthBeforeUse /\ AnsweredOnce)' /\ (Answers = {} <=> stage \in Talking)'
  BY <1>1 DEF IInv, AuthBeforeUse, AnsweredOnce, Answers, talkVars, Talking
<1>5. \A o \in Directions : Complete(o) => Complete(o)'
  BY <1>1 DEF Copying, CopyRead, CopyWrite, CopyReport, Complete, Chunks, IInv,
     TypeOK, flowVars
<1>6. (\A o \in Directions : Chunks(o))'
  <2>1. Chunks(d)'
    BY <1>1 DEF Copying, CopyRead, CopyWrite, AfterFailedWrite, CopyReport,
       Complete, Chunks, IInv, TypeOK, flowVars
  <2>2. ASSUME NEW o \in Directions \ {d} PROVE Chunks(o)'
    BY <1>1, <1>2, <1>5, <2>2 DEF Chunks, IInv
  <2> QED BY <2>1, <2>2
<1>7. Results'
  <2>0. /\ Results
        /\ \A i \in DOMAIN errc : errc[i][1] \in Directions
        /\ first # <<>> => first[1] \in Directions
    BY DEF IInv, TypeOK
  <2>1. CASE CopyReport(d)
    <3>1. /\ errc' = Append(errc, <<d, copy[d]>>)
          /\ errc \in Seq(Directions \X {"eof", "error"})
      BY <2>1 DEF CopyReport, IInv, TypeOK
    <3>2. copy[d] = "eof" => Complete(d)
      BY DEF IInv, Chunks
    <3>3. \A i \in DOMAIN errc' : \/ i \in DOMAIN errc /\ errc'[i] = errc[i]
                                  \/ errc'[i] = <<d, copy[d]>>
      BY <3>1
    <3>4. \A i \in DOMAIN errc' :
             /\ errc'[i][1] \in Directions
             /\ errc'[i][2] = "eof" => Complete(errc'[i][1])
      BY <2>0, <3>2, <3>3 DEF Results
    <3> QED BY <2>0, <1>1, <1>5, <3>4 DEF Results
  <2>2. CASE UNCHANGED errc
    BY <2>0, <1>1, <1>5, <2>2 DEF Results
  <2> QED BY <2>1, <2>2 DEF Copying, CopyRead, CopyWrite
<1>8. OneReportEach'
  <2>0. /\ errc \in Seq(Directions \X {"eof", "error"})
        /\ \A i \in DOMAIN errc : errc[i][1] \in Directions
        /\ copy \in [Directions -> {"off", "read", "write", "eof", "error", "ended"}]
    <3>1. errc \in Seq(Directions \X {"eof", "error"})
      BY DEF IInv, TypeOK
    <3>2. \A i \in DOMAIN errc : errc[i][1] \in Directions
      BY <3>1
    <3> QED BY <3>1, <3>2 DEF IInv, TypeOK
  <2>1. copy[d] # "ended"
    BY DEF Copying, CopyRead, CopyWrite, CopyReport
  <2>2. \A i \in DOMAIN errc : errc[i][1] # d /\ copy'[errc[i][1]] = "ended"
    BY <1>2, <2>0, <2>1 DEF IInv, OneReportEach
  <2>3. CASE CopyReport(d)
    <3>1. /\ errc' = Append(errc, <<d, copy[d]>>) /\ copy'[d] = "ended"
          /\ copy[d] \in {"eof", "error"}
      BY <2>0, <2>3 DEF CopyReport
    <3>2. \A i \in DOMAIN errc' : \/ i \in DOMAIN errc /\ errc'[i] = errc[i]
                                  \/ i = Len(errc) + 1 /\ errc'[i][1] = d
      BY <2>0, <3>1
    <3> QED BY <2>2, <3>1, <3>2 DEF IInv, OneReportEach
  <2>4. CASE UNCHANGED errc
    BY <2>2, <2>4 DEF IInv, OneReportEach
  <2> QED BY <2>3, <2>4 DEF Copying, CopyRead, CopyWrite
<1> QED BY <1>1, <1>2, <1>3, <1>4, <1>6, <1>7, <1>8 DEF IInv, Talking

LEMMA InvariantStep == IInv /\ [Next]_vars => IInv'
<1> SUFFICES ASSUME IInv, [Next]_vars PROVE IInv'
  OBVIOUS
<1>1. CASE Talk \/ Handler
  BY <1>1, TalkStep, HandlerStep DEF Handler
<1>2. CASE \/ \E d \in Directions : Produce(d) \/ Finish(d)
           \/ \E e \in Ends : Break(e)
  BY <1>2, PeerStep
<1>3. CASE \E d \in Directions : Copying(d)
  BY <1>3, CopyStep
<1>4. CASE UNCHANGED vars
  BY <1>4 DEF vars, talkVars, flowVars, copyVars, IInv, TypeOK, AuthBeforeUse,
     AnsweredOnce, Answers, Chunks, Complete, Results, OneReportEach
<1> QED BY <1>1, <1>2, <1>3, <1>4 DEF Next

\* The inductive invariant of a connection (socks5.go:206-357): one answer, given
\* when the talking is over; what each io.Copy holds; what it reports.
THEOREM Invariance == Spec => []IInv
BY InitInv, InvariantStep, PTL DEF Spec

\* Conn.Run (socks5.go:250): no client gets a dial or a UDP socket without
\* the credentials of the listener.
THEOREM Authenticated == Spec => []AuthBeforeUse
<1>1. IInv => AuthBeforeUse
  BY DEF IInv
<1> QED BY Invariance, <1>1, PTL

\* A client is refused once or served, and hears nothing after a refusal.
THEOREM Answered == Spec => []AnsweredOnce
<1>1. IInv => AnsweredOnce
  BY DEF IInv
<1> QED BY Invariance, <1>1, PTL

\* handleTCP, return <-errc: what the end that closed the connection had sent
\* is written to the other end before the handler closes it.
THEOREM NothingCutShort == Spec => []EndingDirectionComplete
<1>1. IInv => EndingDirectionComplete
  BY DEF IInv, Results, Complete, EndingDirectionComplete
<1> QED BY Invariance, <1>1, PTL

\* handleTCP, make(chan error, 2): whichever result is received, the other
\* io.Copy has room for its own, and both sockets are closed in the end.
THEOREM NothingLeftBehind == Spec => []NoneLeftBehind
<1>1. IInv => NoneLeftBehind
  <2> SUFFICES ASSUME IInv PROVE NoneLeftBehind
    OBVIOUS
  <2>1. ASSUME NEW d \in Directions, copy[d] \in {"eof", "error"}
        PROVE  Len(errc) < 2
    <3>0. errc \in Seq(Directions \X {"eof", "error"}) /\ Len(errc) <= 2
      BY DEF IInv, TypeOK
    <3>1. \A i \in DOMAIN errc : errc[i][1] \in Directions \ {d}
      BY <2>1, <3>0 DEF IInv, TypeOK, OneReportEach
    <3>2. ASSUME Len(errc) = 2 PROVE FALSE
      <4>1. 1 \in DOMAIN errc /\ 2 \in DOMAIN errc
        BY <3>0, <3>2
      <4>2. errc[1][1] = errc[2][1]
        BY <3>1, <4>1 DEF Directions
      <4> QED BY <4>1, <4>2 DEF IInv, OneReportEach
    <3>3. Len(errc) \in Nat
      BY <3>0
    <3> QED BY <3>0, <3>2, <3>3
  <2> QED BY <2>1 DEF NoneLeftBehind, IInv
<1> QED BY Invariance, <1>1, PTL

\* The numbers behind Work.
LEMMA WorkType ==
  ASSUME TypeOK, NEW d \in Directions
  PROVE  /\ taken[d] \in Nat /\ produced[d] \in Nat /\ taken[d] <= produced[d]
         /\ copy[d] \in {"off", "read", "write", "eof", "error", "ended"}
BY ConnAssumption DEF TypeOK

\* Every step of a connection's goroutines uses up something a client or a
\* destination has sent, and the handler only goes forward.
THEOREM EveryStepIsPaid == Spec => StepsArePaid
<1>1. ASSUME IInv, [Next]_vars, ~UNCHANGED vars
      PROVE  /\ Talk \/ Handler => Way[stage'] < Way[stage]
             /\ \A d \in Directions : /\ Copying(d) => Work(d)' < Work(d)
                                      /\ Work(d)' <= Work(d) \/ Produce(d)
  <2>1. Talk \/ Handler => Way[stage'] < Way[stage]
    <3>1. CASE Greeting \/ BadGreeting
      BY <3>1 DEF Greeting, BadGreeting, Refuse, Way
    <3>2. CASE Authenticate \/ BadAuth
      BY <3>2 DEF Authenticate, BadAuth, Verdict, Refuse, Way
    <3>3. CASE Request \/ BadRequest
      BY <3>3 DEF Request, BadRequest, Refuse, Way
    <3>4. CASE DialFails \/ DialSucceeds \/ BindUDP
      BY <3>4 DEF DialFails, DialSucceeds, BindUDP, Refuse, Way
    <3>5. CASE AssociationEnds \/ HandlerReturns \/ Leave
      BY <3>5 DEF AssociationEnds, HandlerReturns, Leave, Way
    <3> QED BY <3>1, <3>2, <3>3, <3>4, <3>5 DEF Talk, Handler
  <2>2. ASSUME NEW d \in Directions
        PROVE  /\ Copying(d) => Work(d)' < Work(d)
               /\ Work(d)' <= Work(d) \/ Produce(d)
    <3>0. /\ taken[d] \in Nat /\ produced[d] \in Nat /\ taken[d] <= produced[d]
          /\ copy[d] \in {"off", "read", "write", "eof", "error", "ended"}
      BY <1>1, WorkType DEF IInv
    <3>t. copy \in [Directions -> {"off", "read", "write", "eof", "error", "ended"}]
          /\ taken \in [Directions -> 0 .. MaxChunks]
      BY <1>1 DEF IInv, TypeOK
    <3>1. CASE Copying(d)
      <4>1. produced' = produced
        BY <3>1 DEF Copying, CopyRead, CopyWrite, CopyReport, flowVars
      <4>2. CASE CopyRead(d)
        <5>1. \/ taken'[d] = taken[d] + 1 /\ copy[d] = "read" /\ copy'[d] = "write"
              \/ /\ taken'[d] = taken[d] /\ copy[d] = "read"
                 /\ copy'[d] \in {"eof", "error"}
          BY <3>t, <4>2 DEF CopyRead
        <5> QED BY <3>0, <4>1, <5>1 DEF Work, CopyWay
      <4>3. CASE CopyWrite(d)
        <5>1. /\ taken' = taken /\ copy[d] = "write" /\ copy'[d] \in {"read", "error"}
          BY <3>t, <4>3 DEF CopyWrite, AfterFailedWrite
        <5> QED BY <3>0, <4>1, <5>1 DEF Work, CopyWay
      <4>4. CASE CopyReport(d)
        <5>1. taken' = taken /\ copy[d] \in {"eof", "error"} /\ copy'[d] = "ended"
          BY <3>t, <4>4 DEF CopyReport
        <5> QED BY <3>0, <4>1, <5>1 DEF Work, CopyWay
      <4>5. Work(d)' < Work(d) /\ Work(d)' \in Nat /\ Work(d) \in Nat
        <5>1. Work(d)' < Work(d)
          BY <3>1, <4>2, <4>3, <4>4 DEF Copying
        <5>2. Work(d) \in Nat
          BY <3>0 DEF Work, CopyWay
        <5>3. Work(d)' \in Nat
          <6>1. IInv'
            BY <3>1, <1>1, CopyStep
          <6>2. /\ taken'[d] \in Nat /\ produced'[d] \in Nat
                /\ taken'[d] <= produced'[d]
                /\ copy'[d] \in {"off", "read", "write", "eof", "error", "ended"}
            BY <6>1, ConnAssumption DEF IInv, TypeOK
          <6> QED BY <6>2 DEF Work, CopyWay
        <5> QED BY <5>1, <5>2, <5>3
      <4> QED BY <4>5
    <3>2. CASE ~Copying(d) /\ ~Produce(d)
      <4>1. CASE \E e \in Directions \ {d} : Copying(e) \/ Produce(e)
        <5>1. /\ taken'[d] = taken[d] /\ produced'[d] = produced[d]
              /\ copy'[d] = copy[d]
          BY <1>1, <4>1 DEF Copying, CopyRead, CopyWrite, CopyReport, Produce,
             flowVars, copyVars, IInv, TypeOK
        <5> QED BY <3>0, <3>2, <5>1 DEF Work, CopyWay
      <4>2. CASE DialSucceeds
        <5>1. /\ taken' = taken /\ produced' = produced
              /\ copy'[d] = "read" /\ copy[d] = "off"
          BY <1>1, <4>2 DEF DialSucceeds, flowVars, IInv, Talking
        <5> QED BY <3>0, <3>2, <5>1 DEF Work, CopyWay
      <4>3. CASE Talk \/ (Handler /\ ~DialSucceeds)
        <5>1. UNCHANGED <<taken, produced, copy>>
          BY <4>3 DEF Talk, Greeting, BadGreeting, Authenticate, BadAuth, Request,
             BadRequest, Handler, DialFails, BindUDP, AssociationEnds,
             HandlerReturns, Leave, flowVars, copyVars
        <5> QED BY <3>0, <3>2, <5>1 DEF Work, CopyWay
      <4>4. CASE \/ \E e \in Directions : Finish(e)
                 \/ \E e \in Ends : Break(e)
        <5>1. UNCHANGED <<taken, produced, copy>>
          BY <4>4 DEF Finish, Break, copyVars
        <5> QED BY <3>0, <3>2, <5>1 DEF Work, CopyWay
      <4> QED BY <1>1, <3>2, <4>1, <4>2, <4>3, <4>4 DEF Next
    <3>3. CASE Produce(d) /\ ~Copying(d)
      BY <3>3
    <3> QED BY <3>1, <3>2, <3>3
  <2> QED BY <2>1, <2>2
<1>2. IInv /\ [Next]_vars
        => [/\ Talk \/ Handler => Way[stage'] < Way[stage]
            /\ \A d \in Directions : /\ Copying(d) => Work(d)' < Work(d)
                                     /\ Work(d)' <= Work(d) \/ Produce(d)]_vars
  BY <1>1
<1> QED BY <1>2, Invariance, PTL DEF Spec, StepsArePaid

(***************************************************************************)
(* Liveness.  What ENABLED says of the fair steps is StepsAreEnabled; TLC  *)
(* agrees with it.                                                         *)
(***************************************************************************)

\* Nobody but the handler takes it back from its end, and once it is gone each
\* io.Copy is moved by its own steps only.
LEMMA EndingMoves ==
  ASSUME IInv, [Next]_vars
  PROVE  /\ Ending => Ending' \/ stage' = "done"
         /\ stage = "leaving" => stage' \in {"leaving", "done"}
         /\ stage = "done" => /\ stage' = "done"
                             /\ \A d \in Directions : Copying(d) \/ copy'[d] = copy[d]
<1>1. CASE Talk \/ DialFails \/ DialSucceeds \/ BindUDP
  BY <1>1 DEF Ending, Talk, Greeting, BadGreeting, Authenticate, BadAuth, Request,
     BadRequest, DialFails, DialSucceeds, BindUDP
<1>2. CASE AssociationEnds \/ HandlerReturns \/ Leave
  BY <1>2 DEF Ending, AssociationEnds, HandlerReturns, Leave
<1>3. ASSUME NEW d \in Directions, Copying(d)
      PROVE  /\ stage' = stage /\ UNCHANGED flowVars
             /\ errc # <<>> => errc' # <<>>
             /\ \A o \in Directions \ {d} : copy'[o] = copy[o]
  <2>1. /\ errc \in Seq(Directions \X {"eof", "error"})
        /\ copy \in [Directions -> {"off", "read", "write", "eof", "error", "ended"}]
    BY DEF IInv, TypeOK
  <2>2. /\ stage' = stage /\ UNCHANGED flowVars
        /\ \/ errc' = errc
           \/ copy[d] \in {"eof", "error"} /\ errc' = Append(errc, <<d, copy[d]>>)
    BY <1>3 DEF Copying, CopyRead, CopyWrite, CopyReport
  <2>3. errc # <<>> => errc' # <<>>
    BY <2>1, <2>2
  <2>4. \A o \in Directions \ {d} : copy'[o] = copy[o]
    BY <1>3, <2>1 DEF Copying, CopyRead, CopyWrite, CopyReport
  <2> QED BY <2>2, <2>3, <2>4
<1>4. CASE \/ \E d \in Directions : Produce(d) \/ Finish(d)
           \/ \E e \in Ends : Break(e)
  <2>1. UNCHANGED <<stage, copyVars>>
    BY <1>4 DEF Produce, Finish, Break
  <2>2. finished["up"] => finished'["up"]
    <3>1. finished \in [Directions -> BOOLEAN]
      BY DEF IInv, TypeOK
    <3>2. \/ UNCHANGED finished
          \/ \E d \in Directions : finished' = [finished EXCEPT ![d] = TRUE]
      BY <1>4 DEF Produce, Finish, Break
    <3> QED BY <3>1, <3>2 DEF Directions
  <2>3. broken \subseteq broken'
    BY <1>4 DEF Produce, Finish, Break
  <2>4. "client" \in broken => "client" \in broken'
    BY <2>3
  <2>5. stage' = stage /\ errc' = errc
    BY <2>1 DEF copyVars
  <2>6. \A d \in Directions : copy'[d] = copy[d]
    BY <2>1 DEF copyVars
  <2>7. Ending => Ending'
    BY <2>2, <2>4, <2>5 DEF Ending
  <2> QED BY <2>5, <2>6, <2>7
<1>5. CASE UNCHANGED vars
  BY <1>5 DEF Ending, vars, flowVars, copyVars
<1> QED BY <1>1, <1>2, <1>3, <1>4, <1>5 DEF Next, Handler, Ending, flowVars

\* The handler closes both sockets.
LEMMA HandlerIsDone ==
  FairSpec /\ []StepsAreEnabled => [](Ending => <>[](stage = "done"))
<1> DEFINE Ends_  == Ending
           Leaves == stage = "leaving"
           Done   == stage = "done"
<1>1. IInv /\ [Next]_vars => /\ Ends_ => Ends_' \/ Done'
                             /\ Leaves => Leaves' \/ Done'
                             /\ Done => Done'
  BY EndingMoves
<1>2. /\ Ends_ /\ <<Handler>>_vars => Leaves' \/ Done'
      /\ Leaves /\ <<Handler>>_vars => Done'
  BY DEF Ending, Handler, DialFails, DialSucceeds, BindUDP, AssociationEnds,
     HandlerReturns, Leave
<1>3. Leaves => Ends_
  BY DEF Ending
<1>4. StepsAreEnabled => (Ends_ => ENABLED <<Handler>>_vars)
  BY DEF StepsAreEnabled
<1>5. FairSpec => Spec /\ HandlerIsFair
  BY DEF FairSpec
<1> HIDE DEF Ends_, Leaves, Done
<1>6. FairSpec /\ []StepsAreEnabled => [](Ends_ => <>[]Done)
  BY <1>1, <1>2, <1>3, <1>4, <1>5, Invariance, PTL DEF Spec, HandlerIsFair
<1> QED BY <1>6 DEF Ends_, Done

\* An io.Copy then fails, wherever it is and whatever is still to be copied,
\* reports to a channel that has room, and ends.
LEMMA CopyIsDone ==
  ASSUME NEW d \in Directions
  PROVE  FairSpec /\ []StepsAreEnabled =>
           [](stage = "done" => <>[](copy[d] \in {"off", "ended"}))
<1> DEFINE Done    == stage = "done"
           Copies  == copy[d] \in {"read", "write"}
           Reports == copy[d] \in {"eof", "error"}
           Over    == copy[d] \in {"off", "ended"}
           Here    == IInv /\ NoneLeftBehind
<1>1. Here /\ Done /\ [Next]_vars => /\ Done'
                                     /\ Copies => Copies' \/ Reports'
                                     /\ Reports => Reports' \/ Over'
                                     /\ Over => Over'
  <2>1. Here /\ Done /\ [Next]_vars => Done' /\ (Copying(d) \/ copy'[d] = copy[d])
    BY EndingMoves
  <2>2. Here /\ Done /\ Copying(d) => /\ Copies => Copies' \/ Reports'
                                      /\ Reports => Over'
                                      /\ ~Over
    BY DEF Copying, CopyRead, CopyWrite, CopyReport, AfterFailedWrite, IInv, TypeOK
  <2> QED BY <2>1, <2>2
<1>2. Here /\ Done /\ <<Copying(d)>>_vars => /\ Copies => Reports'
                                             /\ Reports => Over'
  BY DEF Copying, CopyRead, CopyWrite, CopyReport, AfterFailedWrite, IInv, TypeOK,
     NoneLeftBehind
<1>3. Here => Copies \/ Reports \/ Over
  BY DEF IInv, TypeOK
<1>4. Here /\ StepsAreEnabled =>
        (Done /\ (Copies \/ Reports) => ENABLED <<Copying(d)>>_vars)
  <2>1. Here /\ Done /\ (Copies \/ Reports) =>
          \/ copy[d] = "read" /\ open = {}
          \/ copy[d] = "write"
          \/ copy[d] \in {"eof", "error"} /\ Room
    BY DEF NoneLeftBehind, Room
  <2>2. StepsAreEnabled =>
          /\ copy[d] = "read" /\ open = {} => ENABLED <<Copying(d)>>_vars
          /\ copy[d] = "write" => ENABLED <<Copying(d)>>_vars
          /\ copy[d] \in {"eof", "error"} /\ Room => ENABLED <<Copying(d)>>_vars
    BY DEF StepsAreEnabled
  <2> HIDE DEF Here, Done, Copies, Reports
  <2> QED BY <2>1, <2>2
<1>5. FairSpec => Spec /\ CopyIsFair(d)
  BY DEF FairSpec
<1>6. Spec => []Here
  BY Invariance, NothingLeftBehind, PTL
<1> HIDE DEF Done, Copies, Reports, Over, Here
<1>7. FairSpec /\ []StepsAreEnabled => [](Done => <>[]Over)
  BY <1>1, <1>2, <1>3, <1>4, <1>5, <1>6, PTL DEF Spec, CopyIsFair
<1> QED BY <1>7 DEF Done, Over

\* From the first result on, or the end of an association, a connection is
\* released, for any number of chunks still to be copied: return <-errc, the
\* deferred closes, and the io.Copy nobody waits for (socks5.go:339-357).  That
\* an end which finishes or breaks leads to such a result is left to TLC: it
\* takes as many steps as there are chunks.
THEOREM EndingIsReleased == FairSpec /\ []StepsAreEnabled => (Ending ~> []Released)
<1> DEFINE Ends_  == Ending
           Done   == stage = "done"
           Over(d) == copy[d] \in {"off", "ended"}
           IsOver(d) == FairSpec /\ []StepsAreEnabled => [](Done => <>[]Over(d))
           Freed  == Released
<1>1. IInv /\ Done /\ Over("up") /\ Over("down") => Freed
  BY DEF IInv, Released, Directions
<1>2. FairSpec /\ []StepsAreEnabled => [](Ends_ => <>[]Done)
  BY HandlerIsDone
<1>3. IsOver("up") /\ IsOver("down")
  <2>1. \A d \in Directions : IsOver(d)
    BY CopyIsDone
  <2> HIDE DEF IsOver
  <2> QED BY <2>1 DEF Directions
<1>4. FairSpec => Spec
  BY DEF FairSpec
<1> HIDE DEF Ends_, Done, Over, Freed
<1>5. FairSpec /\ []StepsAreEnabled => [](Ends_ => <>[]Freed)
  BY <1>1, <1>2, <1>3, <1>4, Invariance, PTL
<1> QED BY <1>5, PTL DEF Ends_, Freed
=============================================================================
