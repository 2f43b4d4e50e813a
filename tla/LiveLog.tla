------------------------------- MODULE LiveLog -------------------------------
(***************************************************************************)
(* The live log of a build: a headless agent's log file is polled           *)
(* (product/internal/builder/grok.go) and each line published to the         *)
(* browsers that watch (onLog of orchestrator.go, internal/stream/broker.go, *)
(* handleProjectStream).                                                     *)
(*                                                                          *)
(* Lines are numbered as the agent writes them; a poll that ends within one *)
(* carries it as a line of its own, here as whole lines.  The broker's      *)
(* mutex is modelled: Publish and Subscribe take two steps each under it.   *)
(***************************************************************************)
EXTENDS Naturals, SequencesExt

CONSTANTS Viewers,   \* browsers
          MaxLines,  \* bound: lines the agent writes
          Chunk,     \* lines a poll can carry (200 kB)
          Buffer,    \* capacity of a viewer's channel (64)
          HistSize,  \* events the broker retains (500)
          MaxCuts    \* bound: polls that fail, connections that end, further builds

VARIABLES
  file,     \* lines in the agent's log file
  exit,     \* the exit marker: absent, empty, or the status written in it
  status,   \* the status the agent exited with
  poll,     \* the polling loop: [pc, chunk, read, result]
  pub,      \* the publisher: lines accepted, and whether it is inside Publish
  hist,     \* the broker's history
  viewer,   \* the viewers: [pc, chan, shown, missed]
  holder,   \* who holds the broker's mutex
  cuts

vars == <<file, exit, status, poll, pub, hist, viewer, holder, cuts>>
agentVars == <<file, exit, status>>

Free == "free"
Publisher == "publisher"
Away == [pc |-> "away", chan |-> <<>>, shown |-> <<>>, missed |-> {}]
Lines == 1..MaxLines

\* Weakened: the mutex is not waited for.
AcquireAnyway(x) == holder' = x

Acquire(x) == holder = Free /\ holder' = x
Release == holder' = Free
Cut == cuts < MaxCuts /\ cuts' = cuts + 1

TypeOK ==
  /\ file \in 0..MaxLines /\ exit \in {"absent", "empty", "zero", "nonzero"}
  /\ status \in {"zero", "nonzero"}
  /\ poll.pc \in {"tail", "marker", "emit", "over"} /\ poll.chunk \in 0..Chunk
  /\ poll.read \in 0..file /\ poll.result \in {"none", "zero", "nonzero"}
  /\ pub.line \in 0..MaxLines /\ pub.busy \in BOOLEAN
  /\ hist \in Seq(Lines) /\ Len(hist) <= HistSize
  /\ \A v \in Viewers : /\ viewer[v].pc \in {"away", "join", "live"}
                        /\ Len(viewer[v].chan) <= Buffer /\ viewer[v].missed \subseteq Lines
  /\ holder \in Viewers \cup {Free, Publisher}

Init ==
  /\ file = 0 /\ exit = "absent" /\ status = "zero"
  /\ poll = [pc |-> "tail", chunk |-> 0, read |-> 0, result |-> "none"]
  /\ pub = [line |-> 0, busy |-> FALSE]
  /\ hist = <<>> /\ viewer = [v \in Viewers |-> Away] /\ holder = Free /\ cuts = 0

----------------------------------------------------------------------------
(* The agent in the sandbox.                                               *)

WriteLine ==
  /\ exit = "absent" /\ file < MaxLines
  /\ file' = file + 1
  /\ UNCHANGED <<exit, status, poll, pub, hist, viewer, holder, cuts>>

\* The shell opens the marker, then writes the status into it.
OpenMarker ==
  /\ exit = "absent" /\ exit' = "empty" /\ status' \in {"zero", "nonzero"}
  /\ UNCHANGED <<file, poll, pub, hist, viewer, holder, cuts>>

WriteMarker ==
  /\ exit = "empty" /\ exit' = status
  /\ UNCHANGED <<file, status, poll, pub, hist, viewer, holder, cuts>>

----------------------------------------------------------------------------
(* pollGrok: one command, two reads.                                       *)

Step(pc) == poll' = [poll EXCEPT !.pc = pc]

ReadTail ==
  /\ poll.pc = "tail"
  /\ LET rest == file - poll.read IN
       poll' = [poll EXCEPT !.pc = "marker", !.chunk = IF rest < Chunk THEN rest ELSE Chunk]
  /\ UNCHANGED <<agentVars, pub, hist, viewer, holder, cuts>>

\* test -f and cat; an empty marker scans as 0.  A full chunk means: read on first.
Status == IF exit = "empty" THEN "zero" ELSE exit

TestMarker ==
  /\ poll.pc = "marker"
  /\ poll' = [poll EXCEPT !.pc = "emit", !.result = IF exit = "absent" \/ poll.chunk = Chunk THEN "none" ELSE Status]
  /\ UNCHANGED <<agentVars, pub, hist, viewer, holder, cuts>>

\* A failed exec: the next poll starts from the same offset.
PollFails ==
  /\ poll.pc = "marker" /\ Cut
  /\ poll' = [poll EXCEPT !.pc = "tail", !.chunk = 0]
  /\ UNCHANGED <<agentVars, pub, hist, viewer, holder>>

----------------------------------------------------------------------------
(* onLog: publish each line of the chunk.                                  *)

AppendHistory ==
  /\ poll.pc = "emit" /\ poll.chunk > 0 /\ ~pub.busy /\ Acquire(Publisher)
  /\ pub' = [line |-> poll.read + 1, busy |-> TRUE]
  /\ LET h == Append(hist, poll.read + 1) IN
       hist' = IF Len(h) > HistSize THEN Tail(h) ELSE h
  /\ UNCHANGED <<agentVars, poll, viewer, cuts>>

\* To every registered channel; a full one misses the line.
Deliver ==
  /\ pub.busy /\ Release
  /\ viewer' = [v \in Viewers |->
       IF viewer[v].pc # "live" THEN viewer[v]
       ELSE IF Len(viewer[v].chan) < Buffer THEN [viewer[v] EXCEPT !.chan = Append(@, pub.line)]
       ELSE [viewer[v] EXCEPT !.missed = @ \cup {pub.line}]]
  /\ pub' = [pub EXCEPT !.busy = FALSE]
  /\ poll' = [poll EXCEPT !.read = @ + 1, !.chunk = @ - 1]
  /\ UNCHANGED <<agentVars, hist, cuts>>

\* The chunk is emitted: another poll, or the end.
EndOfChunk ==
  /\ poll.pc = "emit" /\ poll.chunk = 0
  /\ Step(IF poll.result = "none" THEN "tail" ELSE "over")
  /\ UNCHANGED <<agentVars, pub, hist, viewer, holder, cuts>>

\* The next build: the log file and the marker removed, the history reset; viewers stay.
NextPass ==
  /\ poll.pc = "over" /\ holder = Free /\ Cut
  /\ file' = poll.read /\ exit' = "absent" /\ hist' = <<>>
  /\ poll' = [poll EXCEPT !.pc = "tail", !.chunk = 0, !.result = "none"]
  /\ UNCHANGED <<status, pub, viewer, holder>>

----------------------------------------------------------------------------
(* handleProjectStream: Subscribe, relay, cancel.                           *)

Put(v, rec) == viewer' = [viewer EXCEPT ![v] = rec]

\* The mutex is taken and the history copied ...
CopyHistory(v) ==
  /\ viewer[v].pc = "away" /\ Acquire(v)
  /\ Put(v, [Away EXCEPT !.pc = "join", !.shown = hist])
  /\ UNCHANGED <<agentVars, poll, pub, hist, cuts>>

\* ... the channel registered and the mutex released.
Register(v) ==
  /\ viewer[v].pc = "join" /\ Release /\ Put(v, [viewer[v] EXCEPT !.pc = "live"])
  /\ UNCHANGED <<agentVars, poll, pub, hist, cuts>>

Relay(v) ==
  /\ viewer[v].pc = "live" /\ viewer[v].chan # <<>>
  /\ Put(v, [viewer[v] EXCEPT !.shown = Append(@, Head(viewer[v].chan)), !.chan = Tail(@)])
  /\ UNCHANGED <<agentVars, poll, pub, hist, holder, cuts>>

\* The browser goes; it may come back and start from the history.
Leave(v) ==
  /\ viewer[v].pc = "live" /\ holder = Free /\ Cut
  /\ Put(v, Away)
  /\ UNCHANGED <<agentVars, poll, pub, hist, holder>>

----------------------------------------------------------------------------
Log == ReadTail \/ TestMarker \/ AppendHistory \/ Deliver \/ EndOfChunk
Next ==
  \/ WriteLine \/ OpenMarker \/ WriteMarker \/ Log \/ PollFails \/ NextPass
  \/ \E v \in Viewers : CopyHistory(v) \/ Register(v) \/ Relay(v) \/ Leave(v)

Spec == Init /\ [][Next]_vars

----------------------------------------------------------------------------
(* Properties.                                                             *)

\* A browser is shown the log from a point on, in order, each line once, with no hole but
\* the lines its full channel missed, whenever it joined or came back (Subscribe hands
\* out the history and registers the channel under the mutex of Publish).
ViewersMissOnlyDrops ==
  \A v \in Viewers : viewer[v].pc = "live" =>
    LET seen == viewer[v].shown \o viewer[v].chan IN
      /\ \A i \in 1..(Len(seen) - 1) : seen[i] < seen[i + 1]
      /\ \A n \in Lines : seen # <<>> /\ seen[1] <= n /\ n <= poll.read =>
                            n \in ToSet(seen) \cup viewer[v].missed

\* "Only report done once the log tail has fully drained" (grok.go:177).
DoneMeansDrained == poll.pc = "over" => poll.read = file

\* "its exit code in a marker file" (grok.go:63): a failed agent is reported as failed.
FailureIsReported == poll.pc = "over" => poll.result = status
=============================================================================
