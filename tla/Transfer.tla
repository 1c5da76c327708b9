-------------------------------- MODULE Transfer --------------------------------
(***************************************************************************)
(* One file transfer over an established connection, from the start of     *)
(* transferEstablishedQUICSession to the end of Run, on both peers.        *)
(*                                                                         *)
(* The sender streams header, data and metadata trailer on a one-way       *)
(* stream; the receiver writes a file it reserved, verifies the trailer    *)
(* and keeps or removes the file; then four receipt messages alternate on  *)
(* a second stream, and both peers linger for the other's FIN.  Beside     *)
(* each peer a lease goroutine refreshes the mailbox session.              *)
(*                                                                         *)
(* A chunk is a block of the file, a digest is the content it was taken    *)
(* of.  A local error (disk full, read or write error, deadline, cancelled *)
(* context) may strike a working peer at any point: Interrupted.  What was *)
(* in flight when a connection breaks may or may not still be read: the    *)
(* reader may take the next frame or notice the loss.  The Noise handshake *)
(* before the file stream is left out.                                     *)
(***************************************************************************)
EXTENDS Naturals, Sequences

CONSTANTS
  Chunk,          \* contents of one block
  File,           \* contents the sender's file may have
  Trailer,        \* a block of a trailer that was written as file data
  TrailerLength,  \* its length in blocks
  Path,           \* destination names, in the order they are tried
  Absent, Foreign,\* no such file; a file of somebody else
  NoPath,         \* no destination reserved
  Legacy          \* the path came from the legacy race, not from ICE

ASSUME TransferAssumption ==
  /\ File \subseteq Seq(Chunk)
  /\ Trailer \notin Chunk
  /\ TrailerLength \in Nat \ {0}
  /\ Path \subseteq Nat /\ NoPath \notin Path
  /\ Absent # Foreign /\ {Absent, Foreign} \cap Seq(Chunk \cup {Trailer}) = {}
  /\ Legacy \in BOOLEAN

Peer == {"send", "recv"}
Other(p) == IF p = "send" THEN "recv" ELSE "send"

VARIABLES
  pc,        \* where each peer's Run stands
  disk,      \* the file on the sender's disk
  size,      \* its size when the sender looked
  read,      \* the blocks the sender has read, which its hash covers
  stream,    \* frames in flight on the file stream
  dir,       \* the files under the destination names
  path,      \* the name the receiver reserved
  want,      \* the size its header advertised
  keep,      \* keepDownload
  step,      \* receipt messages each peer has sent or accepted
  ctl,       \* receipt messages in flight towards each peer
  outcome,   \* what each peer's Run is going to return
  report,    \* the outcome each peer stored in the mailbox
  lease,     \* each peer's lease goroutine
  gone,      \* peers that have closed the connection
  lost,      \* the network between the peers is gone
  quiet      \* nothing outside the two programs has gone wrong

source == <<disk, size, read>>
target == <<dir, path, want, keep>>
receipt == <<step, ctl>>
wire == <<gone, lost>>
vars == <<pc, source, stream, target, receipt, outcome, report, lease, wire, quiet>>

Data == Seq(Chunk \cup {Trailer})
Fin == [kind |-> "fin"]
Reset == [kind |-> "reset"]
Frame == [kind: {"header"}, size: Nat]
         \cup [kind: {"data"}, chunk: Chunk]
         \cup [kind: {"trailer"}, size: Nat, digest: Seq(Chunk)]
         \cup {Fin, Reset}
Receipt == [kind: {"receipt"}, role: 1..4, size: Nat, digest: Data] \cup {Fin}

Sending == {"stat", "header", "chunks"}
Receiving == {"header", "reserve", "data", "trailer", "eof"}
Ending == {"unlease", "report", "cleanup", "end"}

TypeOK ==
  /\ pc \in [Peer -> Sending \cup Receiving \cup {"receipt", "linger"} \cup Ending]
  /\ pc["send"] \in Sending \cup {"receipt", "linger"} \cup Ending
  /\ pc["recv"] \in Receiving \cup {"receipt", "linger"} \cup Ending
  /\ disk \in File /\ size \in Nat /\ read \in Seq(Chunk)
  /\ stream \in Seq(Frame)
  /\ dir \in [Path -> Data \cup {Absent, Foreign}]
  /\ path \in Path \cup {NoPath} /\ want \in Nat /\ keep \in BOOLEAN
  /\ step \in [Peer -> 0..4]
  /\ ctl \in [Peer -> Seq(Receipt)]
  /\ outcome \in [Peer -> {"none", "ok", "failed"}]
  /\ report \in [Peer -> {"none", "ok", "failed"}]
  /\ lease \in [Peer -> {"waiting", "refreshing", "ended"}]
  /\ gone \subseteq Peer /\ lost \in BOOLEAN /\ quiet \in BOOLEAN

Init ==
  /\ pc = [p \in Peer |-> IF p = "send" THEN "stat" ELSE "header"]
  /\ disk \in File /\ size = 0 /\ read = <<>>
  /\ stream = <<>>
  /\ dir \in [Path -> {Absent, Foreign}]
  /\ path = NoPath /\ want = 0 /\ keep = FALSE
  /\ step = [p \in Peer |-> 0]
  /\ ctl = [p \in Peer |-> <<>>]
  /\ outcome = [p \in Peer |-> "none"]
  /\ report = [p \in Peer |-> "none"]
  /\ lease = [p \in Peer |-> "waiting"]
  /\ gone = {} /\ lost = FALSE /\ quiet = TRUE

At(p, l) == pc[p] = l
Goto(p, l) == pc' = [pc EXCEPT ![p] = l]

\* Mutant of Working: the receipts have no deadline.
WorkingFiles(p) == pc[p] \in Sending \cup Receiving

\* Using the connection or the file, under a deadline and the context.
Working(p) == pc[p] \in Sending \cup Receiving \cup {"receipt"}

-----------------------------------------------------------------------------
\* Failing

\* Mutant of Removes: the partial file is left when the trailer is rejected.
RemovesUnlessTrailer(p) == p = "recv" /\ path # NoPath /\ pc[p] \in {"data", "eof"}

\* The deferred removal runs until keepDownload is set.
Removes(p) == p = "recv" /\ path # NoPath /\ ~keep

\* Every return with an error, with what it defers: the sender closes or
\* resets its stream, the receiver removes its file, and an error in the
\* receipts closes the connection at once.
Fail(p) ==
  /\ outcome' = [outcome EXCEPT ![p] = "failed"]
  /\ Goto(p, "unlease")
  /\ gone' = IF At(p, "receipt") THEN gone \cup {p} ELSE gone
  /\ dir' = IF Removes(p) THEN [dir EXCEPT ![path] = Absent] ELSE dir
  /\ IF p = "send" /\ pc[p] \in {"header", "chunks"}
     THEN \E last \in {Fin, Reset} : stream' = Append(stream, last)
     ELSE UNCHANGED stream
  /\ UNCHANGED <<source, path, want, keep, receipt, report, lease, lost>>

Interrupted(p) == Working(p) /\ Fail(p) /\ quiet' = FALSE

\* The other end or the network is gone, or the receiver cancelled the stream
\* the sender writes.
Broken(p) ==
  \/ lost
  \/ Other(p) \in gone
  \/ p = "send" /\ pc[p] \in {"header", "chunks"} /\ outcome["recv"] = "failed"

NoticeLoss(p) == Working(p) /\ Broken(p) /\ Fail(p) /\ UNCHANGED quiet

\* Environment: the network fails, the file is rewritten while it is sent,
\* files of others appear in the download directory.
LoseLink ==
  /\ ~lost /\ lost' = TRUE /\ quiet' = FALSE
  /\ UNCHANGED <<pc, source, stream, target, receipt, outcome, report, lease, gone>>

Rewrite ==
  /\ pc["send"] \in {"header", "chunks"}
  /\ \E f \in File : disk' = f
  /\ quiet' = FALSE
  /\ UNCHANGED <<pc, size, read, stream, target, receipt, outcome, report, lease, wire>>

Intrude(n) ==
  /\ dir[n] = Absent
  /\ dir' = [dir EXCEPT ![n] = Foreign]
  /\ UNCHANGED <<pc, source, stream, path, want, keep, receipt, outcome, report,
                 lease, wire, quiet>>

-----------------------------------------------------------------------------
\* sendFileEncrypted

Stat ==
  /\ At("send", "stat")
  /\ size' = Len(disk)
  /\ Goto("send", "header")
  /\ UNCHANGED <<disk, read, stream, target, receipt, outcome, report, lease, wire, quiet>>

SendHeader ==
  /\ At("send", "header")
  /\ stream' = Append(stream, [kind |-> "header", size |-> size])
  /\ Goto("send", "chunks")
  /\ UNCHANGED <<source, target, receipt, outcome, report, lease, wire, quiet>>

SendChunk ==
  /\ At("send", "chunks") /\ Len(read) < Len(disk)
  /\ LET chunk == disk[Len(read) + 1]
     IN /\ read' = Append(read, chunk)
        /\ stream' = Append(stream, [kind |-> "data", chunk |-> chunk])
  /\ UNCHANGED <<pc, disk, size, target, receipt, outcome, report, lease, wire, quiet>>

\* Mutant of AfterTrailer: the sender does not wait for a receipt.
AfterTrailerSent == "linger"

AfterTrailer == "receipt"

\* The trailer, and the FIN of the deferred Close.
SendTrailer ==
  /\ At("send", "chunks") /\ Len(read) >= Len(disk)
  /\ stream' = stream \o <<[kind |-> "trailer", size |-> size, digest |-> read], Fin>>
  /\ Goto("send", AfterTrailer)
  /\ outcome' = [outcome EXCEPT !["send"] =
                   IF AfterTrailer = "receipt" THEN @ ELSE "ok"]
  /\ UNCHANGED <<source, target, receipt, report, lease, wire, quiet>>

-----------------------------------------------------------------------------
\* receiveFile

Got == dir[path]

\* Reading the next frame, which is of the kind expected in this phase.
Takes(l, kind) ==
  /\ At("recv", l)
  /\ stream # <<>> /\ Head(stream).kind = kind
  /\ stream' = Tail(stream)

ReceiveHeader ==
  /\ Takes("header", "header")
  /\ want' = Head(stream).size
  /\ Goto("recv", "reserve")
  /\ UNCHANGED <<source, dir, path, keep, receipt, outcome, report, lease, wire, quiet>>

\* Mutant of Free: the name is tried without O_EXCL.
FreeAnyway(n) == TRUE

\* O_CREATE with O_EXCL succeeds.
Free(n) == dir[n] = Absent

FirstPhase == IF want = 0 THEN "trailer" ELSE "data"

\* createDownloadFile
Reserve ==
  /\ At("recv", "reserve")
  /\ \E n \in Path : /\ Free(n)
                     /\ \A m \in Path : m < n => ~Free(m)
                     /\ path' = n
                     /\ dir' = [dir EXCEPT ![n] = <<>>]
  /\ Goto("recv", FirstPhase)
  /\ UNCHANGED <<source, stream, want, keep, receipt, outcome, report, lease, wire, quiet>>

NoDestination ==
  /\ At("recv", "reserve") /\ \A n \in Path : ~Free(n)
  /\ Fail("recv")
  /\ quiet' = FALSE

\* What a frame is when it is read as file data.
Blocks(frame) ==
  IF frame.kind = "data" THEN <<frame.chunk>>
                         ELSE [i \in 1..TrailerLength |-> Trailer]

Fits(frame) == Len(Got) + Len(Blocks(frame)) <= want

ReceiveData ==
  /\ \E kind \in {"data", "trailer"} : Takes("data", kind)
  /\ Fits(Head(stream))
  /\ LET now == Got \o Blocks(Head(stream))
     IN /\ dir' = [dir EXCEPT ![path] = now]
        /\ Goto("recv", IF Len(now) < want THEN "data" ELSE "trailer")
  /\ UNCHANGED <<source, path, want, keep, receipt, outcome, report, lease, wire, quiet>>

Verified(frame) ==
  frame.kind = "trailer" /\ frame.size = want /\ frame.digest = Got

ReceiveTrailer ==
  /\ Takes("trailer", "trailer")
  /\ Verified(Head(stream))
  /\ Goto("recv", "eof")
  /\ UNCHANGED <<source, target, receipt, outcome, report, lease, wire, quiet>>

\* The end of the stream after the trailer, and keepDownload.
ReceiveEOF ==
  /\ Takes("eof", "fin")
  /\ keep' = TRUE
  /\ Goto("recv", "receipt")
  /\ UNCHANGED <<source, dir, path, want, receipt, outcome, report, lease, wire, quiet>>

\* Whether receiveFile goes on with this frame in this phase.
Acceptable(l, frame) ==
  \/ l = "header" /\ frame.kind = "header"
  \/ l = "data" /\ frame.kind \in {"data", "trailer"} /\ Fits(frame)
  \/ l = "trailer" /\ Verified(frame)
  \/ l = "eof" /\ frame.kind = "fin"

RejectFrame ==
  /\ pc["recv"] \in Receiving \ {"reserve"}
  /\ stream # <<>> /\ ~Acceptable(pc["recv"], Head(stream))
  /\ Fail("recv")
  /\ UNCHANGED quiet

-----------------------------------------------------------------------------
\* The receipts: receiver-verified, sender-confirmed, receiver-finished,
\* sender-finished

Speaker(i) == IF i % 2 = 1 THEN "recv" ELSE "send"

\* The message a peer sends or expects, with its own view of the file.
Message(p, i) ==
  [kind |-> "receipt", role |-> i,
   size |-> IF p = "send" THEN size ELSE want,
   digest |-> IF p = "send" THEN read ELSE Got]

\* Mutants of LastStep: a message too many; the receiver does not wait for sender-finished.
LastStepMore(p) == 5
LastStepEarly(p) == IF p = "recv" THEN 3 ELSE 4

LastStep(p) == 4

\* Mutant of AfterReceipt: nobody lingers.
AfterReceiptAtOnce == "unlease"

AfterReceipt == "linger"

\* A peer through with its last message half-closes the stream.
Advance(p, queue) ==
  /\ step' = [step EXCEPT ![p] = @ + 1]
  /\ IF step[p] + 1 = LastStep(p)
     THEN /\ Goto(p, AfterReceipt)
          /\ outcome' = [outcome EXCEPT ![p] = "ok"]
          /\ ctl' = [queue EXCEPT ![Other(p)] = Append(@, Fin)]
     ELSE /\ ctl' = queue
          /\ UNCHANGED <<pc, outcome>>

Say(p) ==
  /\ At(p, "receipt") /\ Speaker(step[p] + 1) = p
  /\ Advance(p, [ctl EXCEPT ![Other(p)] = Append(@, Message(p, step[p] + 1))])
  /\ UNCHANGED <<source, stream, target, report, lease, wire, quiet>>

Expected(p) == Head(ctl[p]) = Message(p, step[p] + 1)

Hear(p) ==
  /\ At(p, "receipt") /\ Speaker(step[p] + 1) # p
  /\ ctl[p] # <<>>
  /\ IF Expected(p)
     THEN /\ Advance(p, [ctl EXCEPT ![p] = Tail(@)])
          /\ UNCHANGED <<source, stream, target, report, lease, wire>>
     ELSE Fail(p)
  /\ UNCHANGED quiet

\* lingerAfterAuthenticatedTransferCompletion: whatever ends it is ignored.
EndLinger(p) ==
  /\ At(p, "linger")
  /\ Goto(p, "unlease")
  /\ UNCHANGED <<source, stream, target, receipt, outcome, report, lease, wire>>

SeeFin(p) == ctl[p] # <<>> /\ EndLinger(p) /\ UNCHANGED quiet
LoseLinger(p) == Broken(p) /\ EndLinger(p) /\ UNCHANGED quiet
LingerTimeout(p) == EndLinger(p) /\ quiet' = FALSE

-----------------------------------------------------------------------------
\* The lease goroutine, and the deferred calls of Run

LeaseTick(p) ==
  /\ lease[p] = "waiting"
  /\ lease' = [lease EXCEPT ![p] = "refreshing"]
  /\ UNCHANGED <<pc, source, stream, target, receipt, outcome, report, wire, quiet>>

LeaseRefreshed(p) ==
  /\ lease[p] = "refreshing"
  /\ lease' = [lease EXCEPT ![p] = "waiting"]
  /\ UNCHANGED <<pc, source, stream, target, receipt, outcome, report, wire, quiet>>

\* The goroutine sees that stopLease cancelled its context.
LeaseEnd(p) ==
  /\ lease[p] = "waiting" /\ At(p, "unlease")
  /\ lease' = [lease EXCEPT ![p] = "ended"]
  /\ UNCHANGED <<pc, source, stream, target, receipt, outcome, report, wire, quiet>>

Joined(p) == lease[p] = "ended"

\* The socket of a legacy path is closed before the report, the ICE session
\* after it.  Neither tells the peer, whose QUIC idle timeout notices.
AfterLease == IF Legacy THEN "cleanup" ELSE "report"
AfterReport == IF Legacy THEN "end" ELSE "cleanup"
AfterCleanup == IF Legacy THEN "report" ELSE "end"

\* stopLease
StopLease(p) ==
  /\ At(p, "unlease") /\ Joined(p)
  /\ Goto(p, AfterLease)
  /\ UNCHANGED <<source, stream, target, receipt, outcome, report, lease, wire, quiet>>

\* finalizeTransfer: the report may fail to be stored.
Report(p) ==
  /\ At(p, "report")
  /\ report' \in {report, [report EXCEPT ![p] = outcome[p]]}
  /\ Goto(p, AfterReport)
  /\ UNCHANGED <<source, stream, target, receipt, outcome, lease, wire, quiet>>

\* Mutant of Closing: the connection is left open.
ClosingNothing(p) == {}

Closing(p) == {p}

Cleanup(p) ==
  /\ At(p, "cleanup")
  /\ gone' = gone \cup Closing(p)
  /\ Goto(p, AfterCleanup)
  /\ UNCHANGED <<source, stream, target, receipt, outcome, report, lease, lost, quiet>>

Finished == \A p \in Peer : At(p, "end")

Send == Stat \/ SendHeader \/ SendChunk \/ SendTrailer
Receive == ReceiveHeader \/ Reserve \/ NoDestination \/ ReceiveData
           \/ ReceiveTrailer \/ ReceiveEOF \/ RejectFrame
Confirm(p) == Say(p) \/ Hear(p) \/ SeeFin(p) \/ LoseLinger(p)
Finish(p) == StopLease(p) \/ Report(p) \/ Cleanup(p)
Timers(p) == Interrupted(p) \/ LingerTimeout(p)

Next ==
  \/ Send
  \/ Receive
  \/ \E p \in Peer :
       \/ NoticeLoss(p)
       \/ Confirm(p)
       \/ Finish(p)
       \/ Timers(p)
       \/ LeaseTick(p) \/ LeaseRefreshed(p) \/ LeaseEnd(p)
  \/ LoseLink
  \/ Rewrite
  \/ \E n \in Path : Intrude(n)

Spec == Init /\ [][Next]_vars

\* Goroutines that can run do, and QUIC's idle timeout (MaxIdleTimeout) notices
\* a closed connection or a dead network.  The select of the lease goroutine
\* does not prefer its ticker for ever.
PromptSpec ==
  /\ Spec
  /\ WF_vars(Send) /\ WF_vars(Receive)
  /\ \A p \in Peer :
       /\ WF_vars(NoticeLoss(p)) /\ WF_vars(Confirm(p)) /\ WF_vars(Finish(p))
       /\ WF_vars(LeaseRefreshed(p)) /\ SF_vars(LeaseEnd(p))

\* Deadlines are set before every wait.
TimersFire == \A p \in Peer : WF_vars(Timers(p))

-----------------------------------------------------------------------------
\* Properties

Kept == keep /\ path # NoPath

\* When the sender reports success, the receiver's file is complete, verified
\* and on disk, and holds exactly the blocks the sender read, also when its
\* file changed meanwhile (sendFileEncrypted, receiveFile, the receipts).
SentIsKept ==
  outcome["send"] = "ok" => Kept /\ Got = read /\ Len(read) = size

\* A receiver that reports success has a sender that does: the receipts never
\* leave the sender as the only one that failed.
ReceiverKnowsLast == outcome["recv"] = "ok" => outcome["send"] = "ok"

\* Whatever fails, the receiver leaves no file but a verified one: a file of
\* its own that it will not keep is still being received.
NoDebris ==
  \A n \in Path : dir[n] \notin {Absent, Foreign} =>
    /\ n = path
    /\ IF keep THEN dir[n] = read /\ Len(read) = size
               ELSE pc["recv"] \in Receiving

\* When both peers report and differ, the receiver's report says whether the
\* file was accepted (docs/OPERATOR-CONSOLE.md on ReportStats).
ReportTellsFile ==
  report["send"] # "none" /\ report["recv"] \notin {"none", report["send"]}
    => (report["recv"] = "ok" <=> Kept)

SparesForeign == \A n \in Path : dir[n] = Foreign => dir'[n] = Foreign

\* A file of somebody else in the download directory is never overwritten or
\* removed.
NoClobber == [][SparesForeign]_vars

\* Without any deadline of the program, a failure ends the other peer too.
FailureSpreads == \A p \in Peer : outcome[p] = "failed" ~> pc[Other(p)] = "end"

\* Without any deadline of the program, and while nothing outside goes wrong,
\* the transfer succeeds on both sides: no peer closes the connection while the
\* other still needs it for the last receipt.
QuietEnds == <>(~quiet \/ \A p \in Peer : At(p, "end") /\ outcome[p] = "ok")

\* With deadlines, both peers end, whatever happens.
EveryoneEnds == TimersFire => <>Finished


-----------------------------------------------------------------------------
\* The inductive invariant behind the proofs

\* A trailer in flight ends the sender's work, and tells what it read.
StreamOK ==
  \A i \in DOMAIN stream : stream[i].kind = "trailer" =>
    pc["send"] \notin Sending /\ stream[i].size = size /\ stream[i].digest = read

\* The receiver's file is the only one with data in it.
FileOK ==
  /\ \A n \in Path : dir[n] \notin {Absent, Foreign} =>
       n = path /\ (keep \/ pc["recv"] \in Receiving)
  /\ path # NoPath /\ (keep \/ pc["recv"] \in Receiving) => Got \in Data

\* How far the receiver is with it.
PhaseOK ==
  /\ pc["recv"] \in {"header", "reserve"} => path = NoPath
  /\ pc["recv"] \in {"data", "trailer", "eof"} => path # NoPath
  /\ pc["recv"] \in {"trailer", "eof"} => Len(Got) = want
  /\ pc["recv"] \in Receiving => ~keep
  /\ pc["recv"] \in {"receipt", "linger"} => keep

Complete == /\ path # NoPath /\ Got = read /\ Len(read) = size /\ want = size
            /\ pc["send"] \notin Sending

CompleteOK == keep \/ At("recv", "eof") => Complete

\* What the receipts prove: the first one the sender accepts that the file is
\* kept, the last one the receiver accepts that the sender succeeded.
ReceiptOK ==
  /\ \A i \in DOMAIN ctl["send"] : ctl["send"][i].kind = "receipt" => keep
  /\ step["send"] >= 1 => keep
  /\ \A i \in DOMAIN ctl["recv"] :
       ctl["recv"][i].kind = "receipt" /\ ctl["recv"][i].role = 4 => outcome["send"] = "ok"
  /\ step["recv"] = 4 => outcome["send"] = "ok"

StepOK ==
  \A p \in Peer : /\ At(p, "receipt") => step[p] < 4
                  /\ outcome[p] = "ok" => step[p] = 4 /\ ~Working(p)

TransferInv ==
  TypeOK /\ StreamOK /\ FileOK /\ PhaseOK /\ CompleteOK /\ ReceiptOK /\ StepOK
=============================================================================
