------------------------------- MODULE Files -------------------------------
(***************************************************************************)
(* One file sent over a WebRTC data channel: FileTransfer                  *)
(* (filetransfer.ts) at the sender and at the receiver, with the prompt    *)
(* and the save dialog of the host window (app.ts).  The signals ride the  *)
(* end-to-end channel and are lost when a window shows something else; the *)
(* bytes ride the data channel, which is ordered and reliable until it     *)
(* closes.  A chunk is its number; sizes and buffers count chunks.         *)
(***************************************************************************)
EXTENDS Naturals, Sequences

CONSTANTS Chunks,       \* number of chunks of the file (its announced size)
          HighWater,    \* BACKPRESSURE_HIGH
          LowWater,     \* BACKPRESSURE_LOW
          MaxCandidate, \* ICE candidates each end gathers
          MaxFileFault  \* lost signals, failed reads and writes, lost links

ASSUME FilesAssumption ==
  /\ Chunks \in Nat /\ HighWater \in Nat /\ LowWater \in 0 .. HighWater
  /\ MaxCandidate \in Nat /\ MaxFileFault \in Nat

VARIABLES snd,     \* the sender's Transfer and the streamOut loop
          rcv,     \* the receiver's Transfer, its prompt and its write chain
          toRcv, toSnd, \* signals in flight
          data,    \* the data channel, in order
          channel, \* the data channel: not yet open, open, closed
          received, \* the files handed to the receiving user
          fileFaults

fileVars == <<snd, rcv, toRcv, toSnd, data, channel, received, fileFaults>>

\* DONE_MARKER; the chunks are numbered from 1.
Done == 0

\* What parseSignal lets through.
FileSignal == {"offer", "answer", "ice", "decline"}

\* sendFileSignal: a control frame to the other end.
SendFileSignal(box, signal) == Append(box, signal)

\* The Transfer of the sender, with its streamOut loop, and of the receiver.
NewSender == [has |-> FALSE, task |-> "idle", ready |-> FALSE, ice |-> 0,
              gathered |-> 0, loop |-> "idle", off |-> 0]
NewReceiver == [has |-> FALSE, prompt |-> FALSE, task |-> "idle", ready |-> FALSE,
                ice |-> 0, gathered |-> 0, bound |-> FALSE, got |-> 0,
                chain |-> <<>>, broken |-> FALSE, sink |-> <<>>]

\* fail and cancel: the transfer is forgotten.
FailTransfer(t) == [t EXCEPT !.has = FALSE]

\* A sink keeps its chunks in the order they are written.
SinkWrite(sink, chunk) == Append(sink, chunk)

\* onComplete: the user is handed what the sink holds.
OnComplete(sink) == Append(received, sink)

FileInit ==
  /\ snd = NewSender /\ rcv = NewReceiver
  /\ toRcv = <<>> /\ toSnd = <<>> /\ data = <<>> /\ channel = "none"
  /\ received = <<>> /\ fileFaults = 0

-----------------------------------------------------------------------------
(* The sender.                                                             *)

\* sendFile up to its first await.
SendFile ==
  /\ ~snd.has /\ snd.task = "idle" /\ snd.loop = "idle" /\ channel = "none"
  /\ snd' = [snd EXCEPT !.has = TRUE, !.task = "offer"]
  /\ UNCHANGED <<rcv, toRcv, toSnd, data, channel, received, fileFaults>>

\* createOffer and setLocalDescription resolved: offer the file.
OfferFile ==
  /\ snd.task = "offer"
  /\ snd' = [snd EXCEPT !.task = "offered"]
  /\ toRcv' = SendFileSignal(toRcv, "offer")
  /\ UNCHANGED <<rcv, toSnd, data, channel, received, fileFaults>>

\* handleSignal at the sender: an answer, a decline or a candidate.
SenderSignal ==
  /\ toSnd # <<>>
  /\ toSnd' = Tail(toSnd)
  /\ snd' = CASE ~snd.has -> snd
              [] snd.has /\ Head(toSnd) = "answer" -> [snd EXCEPT !.task = "apply"]
              [] snd.has /\ Head(toSnd) = "decline" -> [snd EXCEPT !.has = FALSE]
              [] snd.has /\ Head(toSnd) = "ice" ->
                   IF snd.ready THEN snd ELSE [snd EXCEPT !.ice = @ + 1]
  /\ UNCHANGED <<rcv, toRcv, data, channel, received, fileFaults>>

\* setRemoteDescription(answer) resolved: drain the buffered candidates.
SenderReady ==
  /\ snd.task = "apply"
  /\ snd' = [snd EXCEPT !.task = "offered", !.ready = TRUE, !.ice = 0]
  /\ UNCHANGED <<rcv, toRcv, toSnd, data, channel, received, fileFaults>>

\* Both descriptions are in: the channel opens and streamOut starts (ch.onopen).
ChannelOpens ==
  /\ channel = "none" /\ snd.ready /\ rcv.ready /\ rcv.has /\ snd.has
  /\ channel' = "open"
  /\ snd' = [snd EXCEPT !.loop = "check"]
  /\ rcv' = [rcv EXCEPT !.bound = TRUE]
  /\ UNCHANGED <<toRcv, toSnd, data, received, fileFaults>>

\* The head of the streaming loop: stop when the transfer is gone, wait when the
\* channel holds too much, otherwise read the next slice or finish.
StreamStep ==
  /\ snd.loop = "check"
  /\ snd' = [snd EXCEPT !.loop =
               CASE snd.off < Chunks /\ ~snd.has -> "over"
                 [] snd.off < Chunks /\ snd.has /\ Len(data) > HighWater -> "drain"
                 [] snd.off < Chunks /\ snd.has /\ Len(data) <= HighWater -> "slice"
                 [] snd.off = Chunks -> "over"]
  /\ data' = IF snd.off = Chunks /\ snd.has /\ channel = "open" THEN Append(data, Done) ELSE data
  /\ UNCHANGED <<rcv, toRcv, toSnd, channel, received, fileFaults>>

DrainedStrictly == ~snd.has \/ Len(data) < LowWater

\* The poll of drain(): the channel fell below the mark, or the transfer is gone.
Drain == ~snd.has \/ Len(data) <= LowWater

DrainResolves ==
  /\ snd.loop = "drain"
  /\ Drain
  /\ snd' = [snd EXCEPT !.loop = "slice"]
  /\ UNCHANGED <<rcv, toRcv, toSnd, data, channel, received, fileFaults>>

\* The slice was read: send it; a closed channel throws, and fail() cancels.
SliceRead ==
  /\ snd.loop = "slice"
  /\ IF channel = "open"
       THEN /\ data' = Append(data, snd.off + 1)
            /\ snd' = [snd EXCEPT !.off = @ + 1, !.loop = "check"]
            /\ channel' = channel
       ELSE /\ snd' = [FailTransfer(snd) EXCEPT !.loop = "over"]
            /\ UNCHANGED <<data, channel>>
  /\ UNCHANGED <<rcv, toRcv, toSnd, received, fileFaults>>

\* The file changed under the reader: the catch cancels and closes the connection.
SliceFails ==
  /\ snd.loop = "slice"
  /\ fileFaults < MaxFileFault
  /\ fileFaults' = fileFaults + 1
  /\ snd' = [FailTransfer(snd) EXCEPT !.loop = "over"]
  /\ channel' = "closed"
  /\ UNCHANGED <<rcv, toRcv, toSnd, data, received>>

\* ch.onclose at the sender, once the other end or the network closed the channel.
SenderCloses ==
  /\ channel = "closed" /\ snd.has
  /\ snd' = [snd EXCEPT !.has = FALSE]
  /\ UNCHANGED <<rcv, toRcv, toSnd, data, channel, received, fileFaults>>

-----------------------------------------------------------------------------
(* The receiver.                                                           *)

\* handleSignal at the receiver: the offer raises the prompt, a candidate is
\* applied or buffered.
ReceiverSignal ==
  /\ toRcv # <<>>
  /\ toRcv' = Tail(toRcv)
  /\ rcv' = CASE Head(toRcv) = "offer" -> [rcv EXCEPT !.has = TRUE, !.prompt = TRUE]
              [] Head(toRcv) = "ice" /\ rcv.has /\ ~rcv.ready -> [rcv EXCEPT !.ice = @ + 1]
              [] OTHER -> rcv
  /\ UNCHANGED <<snd, toSnd, data, channel, received, fileFaults>>

\* Accept on the prompt: makeSink shows the save dialog.
AcceptFile ==
  /\ rcv.prompt
  /\ rcv' = [rcv EXCEPT !.prompt = FALSE, !.task = "sink"]
  /\ UNCHANGED <<snd, toRcv, toSnd, data, channel, received, fileFaults>>

DeclineFile ==
  /\ rcv.prompt
  /\ rcv' = [rcv EXCEPT !.prompt = FALSE, !.has = FALSE]
  /\ toSnd' = SendFileSignal(toSnd, "decline")
  /\ UNCHANGED <<snd, toRcv, data, channel, received, fileFaults>>

\* The sink is chosen (a dismissed dialog falls back to memory): accept() installs
\* the offer.
SinkChosen ==
  /\ rcv.task = "sink"
  /\ rcv' = [rcv EXCEPT !.task = "install"]
  /\ UNCHANGED <<snd, toRcv, toSnd, data, channel, received, fileFaults>>

ReceiverReady ==
  /\ rcv.task = "install"
  /\ rcv' = [rcv EXCEPT !.task = "answer", !.ready = TRUE]
  /\ UNCHANGED <<snd, toRcv, toSnd, data, channel, received, fileFaults>>

\* The answer is made and sent, then the buffered candidates are drained.
AnswerFile ==
  /\ rcv.task = "answer"
  /\ rcv' = [rcv EXCEPT !.task = "idle", !.ice = 0]
  /\ toSnd' = SendFileSignal(toSnd, "answer")
  /\ UNCHANGED <<snd, toRcv, data, channel, received, fileFaults>>

\* onmessage: a chunk within the announced size joins the write chain; one past it
\* fails the transfer; the marker queues the close behind the writes.
Receive ==
  /\ data # <<>> /\ rcv.bound
  /\ data' = Tail(data)
  /\ LET over == Head(data) # Done /\ rcv.got + 1 > Chunks IN
     /\ rcv' = CASE ~rcv.has -> rcv
                 [] rcv.has /\ over -> FailTransfer(rcv)
                 [] rcv.has /\ ~over ->
                      [rcv EXCEPT !.chain = Append(@, Head(data)),
                                  !.got = IF Head(data) = Done THEN @ ELSE @ + 1]
     /\ channel' = IF rcv.has /\ over THEN "closed" ELSE channel
  /\ UNCHANGED <<snd, toRcv, toSnd, received, fileFaults>>

\* The marker closes the sink without waiting for the writes before it.
ChainStepUnordered ==
  /\ rcv.chain # <<>>
  /\ \E i \in 1 .. Len(rcv.chain) :
       LET c == rcv.chain[i] IN
       /\ rcv' = [rcv EXCEPT !.chain = SubSeq(@, 1, i - 1) \o SubSeq(@, i + 1, Len(@)),
                             !.sink = IF c = Done THEN @ ELSE Append(@, c),
                             !.has = IF c = Done THEN FALSE ELSE @]
       /\ received' = IF c = Done THEN Append(received, rcv.sink) ELSE received
       /\ channel' = IF c = Done THEN "closed" ELSE channel
  /\ UNCHANGED <<snd, toRcv, toSnd, data, fileFaults>>

\* The next link of the write chain runs: a write, or the close that hands the file
\* over and closes the connection.  After a failed write the close fails instead.
ChainStep ==
  /\ rcv.chain # <<>>
  /\ LET c == Head(rcv.chain) IN
     /\ rcv' = [rcv EXCEPT !.chain = Tail(@),
                           !.sink = IF c = Done \/ rcv.broken THEN @ ELSE SinkWrite(@, c),
                           !.has = IF c = Done THEN FALSE ELSE @]
     /\ received' = IF c = Done /\ ~rcv.broken THEN OnComplete(rcv.sink) ELSE received
     /\ channel' = IF c = Done THEN "closed" ELSE channel
  /\ UNCHANGED <<snd, toRcv, toSnd, data, fileFaults>>

\* The disk refuses a write: the rest of the chain is skipped.
WriteFails ==
  /\ rcv.chain # <<>> /\ Head(rcv.chain) # Done
  /\ fileFaults < MaxFileFault
  /\ fileFaults' = fileFaults + 1
  /\ rcv' = [rcv EXCEPT !.chain = Tail(@), !.broken = TRUE]
  /\ UNCHANGED <<snd, toRcv, toSnd, data, channel, received>>

-----------------------------------------------------------------------------
\* onicecandidate at either end, once its local description is set.
GatherCandidate ==
  /\ UNCHANGED <<data, channel, received, fileFaults>>
  /\ \/ /\ snd.has /\ snd.task # "offer" /\ snd.gathered < MaxCandidate
        /\ snd' = [snd EXCEPT !.gathered = @ + 1]
        /\ toRcv' = SendFileSignal(toRcv, "ice")
        /\ UNCHANGED <<rcv, toSnd>>
     \/ /\ rcv.has /\ rcv.ready /\ rcv.task = "idle" /\ rcv.gathered < MaxCandidate
        /\ rcv' = [rcv EXCEPT !.gathered = @ + 1]
        /\ toSnd' = SendFileSignal(toSnd, "ice")
        /\ UNCHANGED <<snd, toRcv>>

\* A window shows another conversation, so a signal goes nowhere.
SignalDropped ==
  /\ fileFaults < MaxFileFault
  /\ fileFaults' = fileFaults + 1
  /\ \/ toRcv # <<>> /\ toRcv' = Tail(toRcv) /\ toSnd' = toSnd
     \/ toSnd # <<>> /\ toSnd' = Tail(toSnd) /\ toRcv' = toRcv
  /\ UNCHANGED <<snd, rcv, data, channel, received>>

\* The peer-to-peer channel breaks: what was in flight is gone.
LinkLost ==
  /\ channel = "open"
  /\ fileFaults < MaxFileFault
  /\ fileFaults' = fileFaults + 1
  /\ channel' = "closed" /\ data' = <<>>
  /\ UNCHANGED <<snd, rcv, toRcv, toSnd, received>>

SenderStep == OfferFile \/ SenderSignal \/ SenderReady \/ SenderCloses
ReceiverStep == ReceiverSignal \/ SinkChosen \/ ReceiverReady \/ AnswerFile
StreamOut == StreamStep \/ DrainResolves \/ SliceRead

FileNext ==
  \/ SendFile \/ SenderStep \/ ReceiverStep \/ StreamOut
  \/ ChannelOpens \/ Receive \/ ChainStep
  \/ AcceptFile \/ DeclineFile \/ GatherCandidate
  \/ SliceFails \/ WriteFails \/ SignalDropped \/ LinkLost

\* The event loops and the open channel make progress; users and faults owe nothing.
FileFairness ==
  /\ WF_fileVars(SenderStep) /\ WF_fileVars(ReceiverStep)
  /\ WF_fileVars(StreamOut) /\ WF_fileVars(ChannelOpens)
  /\ WF_fileVars(Receive) /\ WF_fileVars(ChainStep)

FileSpec == FileInit /\ [][FileNext]_fileVars /\ FileFairness

-----------------------------------------------------------------------------
\* Type correctness.
FileTypeOK ==
  /\ snd \in [has : BOOLEAN, task : {"idle", "offer", "offered", "apply"},
              ready : BOOLEAN, ice : 0 .. MaxCandidate, gathered : 0 .. MaxCandidate,
              loop : {"idle", "check", "drain", "slice", "over"}, off : 0 .. Chunks]
  /\ toRcv \in Seq(FileSignal) /\ toSnd \in Seq(FileSignal)
  /\ rcv.task \in {"idle", "sink", "install", "answer"}
  /\ {rcv.has, rcv.prompt, rcv.ready, rcv.bound, rcv.broken} \subseteq BOOLEAN
  /\ rcv.got \in 0 .. Chunks /\ rcv.ice \in 0 .. MaxCandidate
  /\ channel \in {"none", "open", "closed"} /\ fileFaults \in 0 .. MaxFileFault

\* A file that is reported as received is the whole file, in order, and is reported
\* once: the close waits for every write before it, and a failed write or a broken
\* channel never ends in a short file (filetransfer.ts: writeChain, DONE_MARKER).
ReceivedWhole ==
  /\ Len(received) <= 1
  /\ \A i \in 1 .. Len(received) : received[i] = [c \in 1 .. Chunks |-> c]

\* An accepted file arrives and the sender lets its transfer go, when no signal is
\* lost and nothing fails: the back-pressure wait always ends (filetransfer.ts:
\* streamOut, drain, onclose).
AcceptedArrives ==
  []<>(\/ rcv.task = "idle" /\ ~rcv.ready
       \/ received # <<>> /\ ~snd.has
       \/ fileFaults > 0)
=============================================================================
