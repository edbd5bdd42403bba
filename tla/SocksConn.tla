----------------------------- MODULE SocksConn -----------------------------
(***************************************************************************)
(* One client connection of the SOCKS5 server of socks5.go: the goroutine  *)
(* of Conn.Run from the greeting to its deferred closes, the two io.Copy   *)
(* goroutines of handleTCP, the client and the destination.                *)
(*                                                                         *)
(* Messages are abstracted to what the code decides on: the methods a      *)
(* greeting offers, the credentials, the command, and the chunks io.Copy   *)
(* moves.  Malformed and truncated messages are the "bad" ones.  The       *)
(* datagrams of a UDP association are not modelled here.                   *)
(***************************************************************************)
EXTENDS Naturals, Sequences

CONSTANTS
  Username, Password,  \* of SocksOpts
  Empty,               \* the empty string
  Strings,             \* user names and passwords a client may send
  MaxChunks            \* bound: chunks each end sends

ASSUME ConnAssumption ==
  /\ {Username, Password, Empty} \subseteq Strings
  /\ MaxChunks \in Nat

VARIABLES
  stage,      \* where Run is
  replies,    \* what it has written to the client, one element per message
  login,      \* history: the credentials the client sent, <<>> before
  open,       \* sockets not closed by the proxy: "client", "server"
  broken,     \* ends that reset the connection or vanished
  copy,       \* direction -> its io.Copy
  produced,   \* direction -> chunks its source has sent
  taken,      \* direction -> chunks read from the source
  delivered,  \* direction -> chunks written to the sink (rxBytes, txBytes)
  finished,   \* direction -> its source has closed its sending side
  errc,       \* the results in the channel: <<direction, "eof" or "error">>
  first       \* history: the result Run received from errc, <<>> before

talkVars == <<replies, login>>
flowVars == <<produced, finished, broken>>
copyVars == <<copy, taken, delivered, errc>>
vars == <<stage, talkVars, open, flowVars, copyVars, first>>

Directions == {"up", "down"}
Ends       == {"client", "server"}
Source(d)  == IF d = "up" THEN "client" ELSE "server"
Sink(d)    == IF d = "up" THEN "server" ELSE "client"

Refusals == {"noMethod", "authBad", "failure", "unsupported"}
Messages == {"noAuth", "password", "authOK", "success"} \cup Refusals
Stages   == {"greeting", "auth", "request", "dial", "bindUDP", "relay",
             "associated", "leaving", "done"}

\* Types, and of the chunks read at most the last is not written.
TypeOK ==
  /\ stage \in Stages
  /\ replies \in Seq(Messages)
  /\ login \in {<<>>} \cup Strings \X Strings
  /\ open \subseteq Ends
  /\ broken \subseteq Ends
  /\ copy \in [Directions -> {"off", "read", "write", "eof", "error", "ended"}]
  /\ \A counter \in {produced, taken, delivered} :
       counter \in [Directions -> 0 .. MaxChunks]
  /\ \A d \in Directions : /\ taken[d] <= produced[d]
                            /\ taken[d] \in delivered[d] .. delivered[d] + 1
  /\ finished \in [Directions -> BOOLEAN]
  /\ errc \in Seq(Directions \X {"eof", "error"}) /\ Len(errc) <= 2
  /\ first \in {<<>>} \cup Directions \X {"eof", "error"}

Init ==
  /\ stage = "greeting"
  /\ replies = <<>> /\ login = <<>>
  /\ open = {"client"} /\ broken = {}
  /\ copy = [d \in Directions |-> "off"]
  /\ produced = [d \in Directions |-> 0]
  /\ taken = [d \in Directions |-> 0]
  /\ delivered = [d \in Directions |-> 0]
  /\ finished = [d \in Directions |-> FALSE]
  /\ errc = <<>> /\ first = <<>>

(***************************************************************************)
(* Conn.Run: greeting and authentication.                                  *)
(***************************************************************************)
NeedAuth == Username # Empty \/ Password # Empty
Method   == IF NeedAuth THEN "password" ELSE "noAuth"

Say(message) == replies' = Append(replies, message)

\* A refusal is written and Run returns: nothing more is read or dialed.
Refuse(message) == Say(message) /\ stage' = "leaving"

\* parseClientGreeting finds the one method the server accepts, or fails.
Greeting ==
  /\ stage = "greeting"
  /\ \E offered \in SUBSET {"noAuth", "password"} :
       IF Method \in offered
         THEN Say(Method) /\ stage' = IF NeedAuth THEN "auth" ELSE "request"
         ELSE Refuse("noMethod")
  /\ UNCHANGED <<login, open, flowVars, copyVars, first>>

BadGreeting ==
  /\ stage = "greeting"
  /\ Refuse("noMethod")
  /\ UNCHANGED <<login, open, flowVars, copyVars, first>>

\* Both must match.
Matches_Either(user, pwd) == user = Username \/ pwd = Password
Matches(user, pwd) == user = Username /\ pwd = Password

\* What Run does once the credentials are read.
Verdict_Unchecked(ok) ==
  Say(IF ok THEN "authOK" ELSE "authBad") /\ stage' = "request"
Verdict(ok) ==
  IF ok THEN Say("authOK") /\ stage' = "request" ELSE Refuse("authBad")

Authenticate ==
  /\ stage = "auth"
  /\ \E user, pwd \in Strings :
       /\ login' = <<user, pwd>>
       /\ Verdict(Matches(user, pwd))
  /\ UNCHANGED <<open, flowVars, copyVars, first>>

BadAuth ==
  /\ stage = "auth"
  /\ Verdict(FALSE)
  /\ UNCHANGED <<login, open, flowVars, copyVars, first>>

(***************************************************************************)
(* handleRequest, and the first halves of handleTCP and handleUDP.         *)
(***************************************************************************)
Request ==
  /\ stage = "request"
  /\ \/ stage' = "dial" /\ UNCHANGED replies
     \/ stage' = "bindUDP" /\ UNCHANGED replies
     \/ Refuse("unsupported")
  /\ UNCHANGED <<login, open, flowVars, copyVars, first>>

BadRequest ==
  /\ stage = "request"
  /\ Refuse("failure")
  /\ UNCHANGED <<login, open, flowVars, copyVars, first>>

\* The Dialer gives up: the tunnel is down (ErrTunnelDown), a name does not
\* resolve, the destination refuses, or the 5 seconds are over.
DialFails ==
  /\ stage = "dial"
  /\ Refuse("failure")
  /\ UNCHANGED <<login, open, flowVars, copyVars, first>>

\* The local address of a connection always splits and marshals, so that the
\* error returns of lines 319-322 and 333-336 are not taken.
DialSucceeds ==
  /\ stage = "dial"
  /\ open' = open \cup {"server"}
  /\ Say("success")
  /\ copy' = [d \in Directions |-> "read"]
  /\ stage' = "relay"
  /\ UNCHANGED <<login, flowVars, taken, delivered, errc, first>>

BindUDP ==
  /\ stage = "bindUDP"
  /\ Refuse("failure") \/ (Say("success") /\ stage' = "associated")
  /\ UNCHANGED <<login, open, flowVars, copyVars, first>>

\* io.Copy(io.Discard, associatedTCP) returns.
AssociationEnds ==
  /\ stage = "associated"
  /\ finished["up"] \/ "client" \in broken
  /\ stage' = "leaving"
  /\ UNCHANGED <<talkVars, open, flowVars, copyVars, first>>

(***************************************************************************)
(* The client and the destination.                                         *)
(***************************************************************************)
Connected == {"client"} \cup IF stage = "relay" THEN {"server"} ELSE {}

Produce(d) ==
  /\ stage = "relay"
  /\ ~finished[d] /\ Source(d) \notin broken
  /\ produced[d] < MaxChunks
  /\ produced' = [produced EXCEPT ![d] = @ + 1]
  /\ UNCHANGED <<stage, talkVars, open, broken, copyVars, finished, first>>

\* One end has sent all it wants to send; it may still receive.
Finish(d) ==
  /\ Source(d) \in Connected
  /\ ~finished[d]
  /\ finished' = [finished EXCEPT ![d] = TRUE]
  /\ UNCHANGED <<stage, talkVars, open, broken, copyVars, produced, first>>

\* One end resets the connection, or keepalives find that it is gone.
Break(e) ==
  /\ e \in Connected \ broken
  /\ broken' = broken \cup {e}
  /\ UNCHANGED <<stage, talkVars, open, copyVars, produced, finished, first>>

(***************************************************************************)
(* The two io.Copy goroutines.                                             *)
(***************************************************************************)
CopyRead(d) ==
  /\ copy[d] = "read"
  /\ \/ /\ Source(d) \in open /\ taken[d] < produced[d]
        /\ taken' = [taken EXCEPT ![d] = @ + 1]
        /\ copy' = [copy EXCEPT ![d] = "write"]
     \/ /\ Source(d) \in open /\ taken[d] = produced[d] /\ finished[d]
        /\ copy' = [copy EXCEPT ![d] = "eof"]
        /\ UNCHANGED taken
     \/ /\ Source(d) \notin open \/ Source(d) \in broken
        /\ copy' = [copy EXCEPT ![d] = "error"]
        /\ UNCHANGED taken
  /\ UNCHANGED <<stage, talkVars, open, flowVars, delivered, errc, first>>

\* What io.Copy does when a write fails.
AfterFailedWrite_Ignored == "read"
AfterFailedWrite == "error"

CopyWrite(d) ==
  /\ copy[d] = "write"
  /\ \/ /\ Sink(d) \in open \ broken
        /\ delivered' = [delivered EXCEPT ![d] = @ + 1]
        /\ copy' = [copy EXCEPT ![d] = "read"]
     \/ /\ Sink(d) \notin open \ broken
        /\ copy' = [copy EXCEPT ![d] = AfterFailedWrite]
        /\ UNCHANGED delivered
  /\ UNCHANGED <<stage, talkVars, open, flowVars, taken, errc, first>>

\* The channel has room for both results, received or not.
Room_Unbuffered == stage = "relay"
Room == Len(errc) < 2

CopyReport(d) ==
  /\ copy[d] \in {"eof", "error"}
  /\ Room
  /\ errc' = Append(errc, <<d, copy[d]>>)
  /\ copy' = [copy EXCEPT ![d] = "ended"]
  /\ UNCHANGED <<stage, talkVars, open, flowVars, taken, delivered, first>>

(***************************************************************************)
(* The end of Run and of the goroutine that Serve started for it.          *)
(***************************************************************************)

\* The sockets left after handleTCP's defer.
AfterTCP_Leaked == open
AfterTCP == open \ {"server"}

\* return <-errc: the first result, whichever direction it is of, ends both.
HandlerReturns ==
  /\ stage = "relay"
  /\ errc # <<>>
  /\ first' = Head(errc)
  /\ errc' = Tail(errc)
  /\ open' = AfterTCP
  /\ stage' = "leaving"
  /\ UNCHANGED <<talkVars, flowVars, copy, taken, delivered>>

\* Serve's goroutine: unregister, then c.Close.
Leave ==
  /\ stage = "leaving"
  /\ open' = open \ {"client"}
  /\ stage' = "done"
  /\ UNCHANGED <<talkVars, flowVars, copyVars, first>>

Talk    == Greeting \/ BadGreeting \/ Authenticate \/ BadAuth
             \/ Request \/ BadRequest
Handler == DialFails \/ DialSucceeds \/ BindUDP \/ AssociationEnds
             \/ HandlerReturns \/ Leave
Copying(d) == CopyRead(d) \/ CopyWrite(d) \/ CopyReport(d)

Next ==
  \/ Talk \/ Handler
  \/ \E d \in Directions : Produce(d) \/ Finish(d) \/ Copying(d)
  \/ \E e \in Ends : Break(e)

Spec == Init /\ [][Next]_vars

\* Goroutines run, the dial has a timeout, and a write returns because the end
\* it is for reads or breaks.  No client has to talk: the greeting and the
\* requests are read without a deadline.
HandlerIsFair == WF_vars(Handler)
CopyIsFair(d) == WF_vars(Copying(d))

FairSpec == Spec /\ HandlerIsFair /\ \A d \in Directions : CopyIsFair(d)

\* The handler has a result, or the end of an association, to return for.
Ending ==
  \/ stage = "relay" /\ errc # <<>>
  \/ stage = "associated" /\ (finished["up"] \/ "client" \in broken)
  \/ stage = "leaving"

\* When these steps are enabled, written out: what the liveness proof takes
\* from the meaning of ENABLED.
StepsAreEnabled ==
  /\ Ending => ENABLED <<Handler>>_vars
  /\ \A d \in Directions :
       /\ copy[d] = "read" /\ open = {} => ENABLED <<Copying(d)>>_vars
       /\ copy[d] = "write" => ENABLED <<Copying(d)>>_vars
       /\ copy[d] \in {"eof", "error"} /\ Room => ENABLED <<Copying(d)>>_vars

(***************************************************************************)
(* Properties.                                                             *)
(***************************************************************************)

\* Nothing is dialed or bound for a client that has not sent exactly the
\* credentials of the listener, when it has any.
AuthBeforeUse ==
  NeedAuth /\ stage \in {"request", "dial", "bindUDP", "relay", "associated"}
    => login = <<Username, Password>>

\* A connection that is over has been refused or served, never both and never
\* neither; the client hears nothing after its refusal, and nothing but the
\* relayed bytes after a success, so that the stream stays parseable.
Answers == {i \in DOMAIN replies : replies[i] \in Refusals \cup {"success"}}

AnsweredOnce ==
  /\ Answers \subseteq {Len(replies)}
  /\ stage = "done" => Answers # {}

\* The direction whose end closed the connection is complete: all that this
\* end sent has been written to the other one.  (The other direction may be
\* cut: the handler does not wait for it.)
EndingDirectionComplete ==
  first # <<>> /\ first[2] = "eof" => delivered[first[1]] = produced[first[1]]

\* The inductive invariant: the answer is given when the talking is over; the
\* destination is connected while it is relayed to; what an io.Copy has read
\* is written, but for the chunk in its hands or the one that failed; and it
\* ends with "eof" when it has written all there was.
Talking == {"greeting", "auth", "request", "dial", "bindUDP"}

Complete(d) == finished[d] /\ delivered[d] = produced[d]

Chunks(d) ==
  /\ copy[d] \in {"off", "read"} => delivered[d] = taken[d]
  /\ copy[d] = "write" => taken[d] = delivered[d] + 1
  /\ copy[d] = "eof" => Complete(d)

Results ==
  /\ \A i \in DOMAIN errc : errc[i][2] = "eof" => Complete(errc[i][1])
  /\ first # <<>> /\ first[2] = "eof" => Complete(first[1])

\* The results in the channel are of different directions, whose io.Copy has
\* ended and reports nothing more.
OneReportEach ==
  /\ \A i \in DOMAIN errc : copy[errc[i][1]] = "ended"
  /\ \A i, j \in DOMAIN errc : errc[i][1] = errc[j][1] => i = j

IInv ==
  /\ TypeOK /\ AuthBeforeUse /\ AnsweredOnce
  /\ Answers = {} <=> stage \in Talking
  /\ "server" \in open <=> stage = "relay"
  /\ \A d \in Directions : Chunks(d) /\ (stage \in Talking => copy[d] = "off")
  /\ Results /\ OneReportEach
  /\ stage = "done" => open = {}

\* The goroutine whose result nobody receives is not left behind: the channel
\* has room for it when it comes to report, and when the handler has gone it
\* finds both sockets closed.
NoneLeftBehind ==
  /\ \A d \in Directions : copy[d] \in {"eof", "error"} => Len(errc) < 2
  /\ stage = "done" => open = {}

\* What is left for the handler to do, and for an io.Copy.
Way == [greeting |-> 6, auth |-> 5, request |-> 4, dial |-> 3, bindUDP |-> 3,
        relay |-> 2, associated |-> 2, leaving |-> 1, done |-> 0]
CopyWay == [off |-> 3, read |-> 2, write |-> 3, eof |-> 1, error |-> 1, ended |-> 0]
Work(d) == 2 * (produced[d] - taken[d]) + CopyWay[copy[d]]

\* A connection costs the proxy at most six steps of its handler and, for each
\* direction, two for each chunk its source sends and three: nothing is done
\* over, and neither io.Copy can spin on an error.
StepsArePaid ==
  [][/\ Talk \/ Handler => Way[stage'] < Way[stage]
     /\ \A d \in Directions :
          /\ Copying(d) => Work(d)' < Work(d)
          /\ Work(d)' <= Work(d) \/ Produce(d)]_vars

\* Handler, goroutines and sockets are gone.
Released ==
  /\ stage = "done" /\ open = {}
  /\ \A d \in Directions : copy[d] \in {"off", "ended"}

\* When either end of a relayed connection (or the client of an association)
\* finishes or breaks, the handler returns, and both goroutines and both
\* sockets are gone in the end.
ConnIsReleased ==
  /\ stage \in {"relay", "associated"}
  /\ broken # {} \/ \E d \in Directions : finished[d]
  ~> Released
=============================================================================
