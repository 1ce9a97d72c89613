# TLA+ specifications of JS8Call

JS8Call is a Qt program for weak-signal messaging on short wave.  It cuts text
into frames, sends one frame per transmit period (6 to 30 seconds, aligned to
the clock), and decodes the audio of everybody else in the pass band.  Most of
the program is `mainwindow.cpp`: one class, a timer that fires every 100 ms,
some forty members that together are the state of the transmitter, and signals
from the threads and processes around it.  This directory holds
models of the parts in which those signals meet, checked with TLC, and proofs
about them, checked with TLAPS.

    TxControl.tla             the transmit pipeline                 (4 runs)
    TxControlProofs.tla       its inductive invariant, proved
    DecodeService.tla         what the GUI may expect of a decoder
    DecoderHandshake.tla      the decoder: memory, lock file, restarts (2 runs)
    DecoderHandshakeProofs.tla  its inductive invariant, proved
    DecoderServiceProofs.tla  that it implements DecodeService, proved
    RxAssembly.tla            frames to messages to commands
    MCRxAssembly.tla          messages for checking it              (1 run)
    RxAssemblyProofs.tla      types, at most once, whose a command is, whole messages, expiry, proved
    Transceiver.tla           one rig object and its radio, as operators
    RigControl.tla            commands, updates, failure, reopening (2 runs)
    RigControlProofs.tla      types, and that a reopened rig stays open, proved
    RigCommandProofs.tla      its other safety properties, proved
    Mailbox.tla               messages left for others              (1 run)
    MailboxProofs.tla         its four invariants, proved
    DecodeSchedule.tla        which audio is decoded when           (2 runs)
    DecodeScheduleProofs.tla  types, EverySignal and EveryPeriod, proved
    PROJECT.json              components, runs, mutants, map, hazards, theorems

`tlc -config TxControl_hold.cfg TxControl` repeats a run; `tlapm
TxControlProofs.tla` repeats the proofs.

## Inventory

State is listed with the member that holds it; line numbers are in
`PROJECT.json`.  "Hard" is what tests would hardly reach; the repository has
no tests.

**Transmit pipeline** (`guiUpdate`, `startTx`, `stopTx`, `startTx2`, `stopTx2`,
`prepareNextMessageFrame`, the Send, Stop and Tune buttons, `tx_watchdog`).
State: `m_auto`, `m_tune`, `g_iptt`/`m_iptt0`, `m_btxok`/`m_btxok0`,
`m_transmitting`, `m_tx_when_ready`, `m_txFrameQueue`, `m_txFrameCount`,
`m_txFrameCountSent`, `m_i3bit`, `m_nextFreeTextMsg`, three single-shot timers.
Hard: the begin and the end of a slot are *edges* seen by comparing a flag with
its value at the last pass of `guiUpdate`; every button handler may run between
two passes; the handlers call each other (Stop releases Send, which calls
`stopTx`, which presses Stop); the timers are never cancelled; typing ahead cuts
the text anew while it is being sent.  Correct when: the rig is never left
keyed, frames go out one by one and are flagged so that the receiver can put
them together, nothing is keyed without the Send button showing it, and
whatever is started ends.

**Transmit message queue** (`m_txMessageQueue`, `enqueueMessage`,
`processTxQueue`).  Replies, heartbeats and API messages wait in a priority
queue ordered by `PrioritizedMessage::operator<`.  Hard: the comparison is not a
strict weak order; the queue is cleared by the end of any transmission.
Correct when: what is queued is sent or visibly dropped, in an order a reader
of the code would expect.

**Decoder handshake** (`decode`, `decodeProcessQueue`, `decodeStart`,
`decodeDone`, `initDecoderSubprocess`, `Decoder`/`Worker`, the program of
`lib/jt9a.f90`).  State: `m_decoderQueue`, `m_decoderBusy`,
`m_decoderBusyStartTime`, `m_valid`, the files `.lock` and `.quit`, the shared
memory, `Worker::m_proc`.  Hard: three actors and two files; the program looks
for the file again 100 ms after it has said that it has finished; a restart
overlaps the death of the old program; error dialogs run a nested event loop.
Correct when: no audio is lost, the memory is not written while it is read,
answers belong to the job that was asked for, and the decoder comes back after
any failure.

**Decode scheduling** (`decodeEnqueueReadyExperiment`, the ring buffer of
`Detector`).  Which ranges of a 60 s ring are queued, per speed, and when.
Hard: wrap-around, clock drift, a busy decoder that is late.  Correct when:
every period is handed over whole and its samples are still there when copied.

**Receive assembly** (`processDecodedLine`, `processRxActivity`,
`processCompoundActivity`, `processBufferedActivity`).  State:
`m_messageBuffer`, `m_bandActivity`, `m_rxActivityQueue`, `m_rxCommandQueue`,
`m_messageDupeCache`.  Hard: lost and repeated frames, drifting offsets, two
part callsigns, time-outs at 60 and 90 s.  Correct when: a command that is
processed is made of the frames of one message, complete, once.

**Commands, replies, inbox** (`processCommandActivity`, `Inbox`).  Auto-replies,
store and forward, relay.  Hard: replies race with the operator's text, the
confirmation box is answered up to 90 s later.  Correct when: a stored message
is delivered, and marked delivered only if it was handed over.

**Rig control** (`Configuration`, `TransceiverBase`, `PollingTransceiver`,
`EmulateSplitTransceiver`, back ends).  State: `transceiver_command_number_`,
`cached_rig_state_`, `requested_`, `actual_`, `last_sequence_number_`,
`retries_`.  Commands and updates cross a thread boundary; updates that answer
old commands are dropped by number.  Hard: failure and re-opening with
signals under way, polls that see the rig before it obeys.  Correct when: the
GUI acts only on answers to its latest command and PTT is released on every way
out.

**Audio** (`Modulator`, `Detector`, sound devices): start, stop, `isActive`; a
ring of samples under a mutex that not all users take.

**Outgoing text editor** (`TransmitTextEdit`): the sent prefix is protected,
the rest may be edited while it is being sent.

**Heartbeat and CQ repetition, band hopping, `StationList`**: timers that pause
and resume each other.

**Network clients** (`MessageClient`, `MessageServer`, `TCPClient`,
`APRSISClient`, `SpotClient`, PSK Reporter): queues over connections that come
and go.

**Text coding** (`varicode`, `decodedtext`, `jsc`): pure functions.

**Not candidates**: plots, dialogs, settings, logbook, the signal processing in
Fortran, and vendored code (boost, qcustomplot, Hamlib interfaces, contrib).

Interactions: `dataSink` (audio arrives) -> `decode` -> program -> `Worker` ->
`processDecodedLine` -> buffers -> `processCommandActivity` -> `enqueueMessage`
-> `processTxQueue` (from `guiUpdate`) -> `addMessageText`, `toggleTx` ->
`startTx` -> `guiUpdate` -> `transceiver_ptt` -> rig thread -> update ->
`handle_transceiver_update` -> `startTx2` -> `Modulator`.

## Plan

1. `TxControl`: the pipeline that can leave a transmitter on.  Done.
2. `TxControlProofs`: types and safety for every size.  Done; with Tune for
   `PttHasOwner` and `EndWillBeSeen`, and for `AudioWaitsForRig` where PTT is
   not held.
3. `DecodeService`, `DecoderHandshake`: abstract service and its
   implementation with crashes.  Done; its safety and the refinement
   (`DecoderServiceProofs`) are proved.
4. `RxAssembly`: buffers, compound calls, time-outs.  Done; the types, `AtMostOnce`,
   `BuffersExpire` and, under conditions on what is sent, `Faithful` and
   `WholeIsProcessed` are proved.
5. `Link`: the frames of `TxControl` over a lossy channel into `RxAssembly`;
   abstract specification "a processed command is one message, whole, once, or
   the receiver says that something is missing".
6. `Transceiver`, `RigControl`, `RigControlProofs`, `RigCommandProofs`: Configuration
   and TransceiverBase with PollingTransceiver, failure and re-open.  Done; the
   safety properties that hold are proved.
7. `DecodeSchedule`, `DecodeScheduleProofs`: the ring as integers modulo its size,
   ranges and overwriting.  Done; types, `EverySignal` and `EveryPeriod` are
   proved.
8. `Mailbox`, `MailboxProofs`: store and forward, relay, acknowledgements.  Done;
   all its invariants are proved.
9. Left: `Link`; `Repeats` (heartbeat and CQ timers, band hopping); the
   confirmation box and the remaining commands; network clients; the text
   editor's own bookkeeping.

Runs are bounded to what shows the interesting case: two or three frames,
one or two replies, two faults, a buffer or two; one run per configuration that
changes the control flow (PTT held or released), and one for each of four places where
a comment and the code disagree.  Others that were met are under "found on the way": where
the module states them as a property the values of the constants are given with it.  Theorems left:
a form of the frame properties of `TxControl` that holds around a tune.

The message queue has no module of its own.  With its `operator<` a new
message rises to the top whatever its priority, and with ten or more messages
waiting one may be served before another that is older and of higher priority;
but the repository says
nowhere what order is meant, so there is nothing to hold the heap against.
`TxControl` leaves the choice open.

## TxControl

One record `gui` holds the members of `MainWindow` that matter and the signals
it has queued; `phase`, `ticked`, `keyed` and `active` are the clock, whether
`guiUpdate` has run in this phase, the rig's PTT and the modulator.  A C++
function that changes members is an operator from record to record with the
name of the function, so a chain of calls is nested application and an action
is one handler run to its end, as on the GUI thread.  `EveryPass` is the part
of `guiUpdate` of every 100 ms, `OncePerSecond` the part of each new second.

- Text is the number of frames its unsent part makes; an edit sets any number.
- The clock has three phases of a period: `start` (a slot may begin), `body` (it may
  go on), `gap` (it must be over).  A phase outlasts a pass of `guiUpdate`,
  the three timers and the audio thread: the shortest phase of the program is
  longer than the 500 ms of the longest timer.  Timers are
  `armed` when started and `due` at the end of the phase; they may fire before.
- The rig is commanded through a queue.  An update that answers
  an older command than the latest is dropped by `Configuration`; so `EmitPTT`
  clears a waiting update.
- Which message stands at the head of the message queue, and whether it is to
  be sent at once, is a free choice.
- `Settled` (pace): at least one pass of `guiUpdate` lies between a Stop and the
  next Send.  Two presses within 100 ms can hide an edge from `guiUpdate`; the
  model without this guard finds a skipped frame.
- Left out: tones, restart of the waveform, frequency restore, monitoring,
  rig failure and going offline.

Configurations:

`TxControl_hold` (PTT held, `FairSpec`, up to 2 frames, 1 queued message, 2 signals per
queue) checks the type invariant, seven safety properties and two liveness
properties.  Two frames are the least number with a first frame that is not
the last, and typing ahead re-cuts them any number of times.
`TxControl_release` (PTT dropped between slots) adds the Tune button, the 30 m
WSPR guard band and a station that may not be ready to send, and checks three of
the safety properties again, where the branches of these two lie on their way.
Exact constants are in the `.cfg` files.

Two runs are expected to fail.  `TxControl_replies`: a reply queued during a
transmission does not survive its end, though the code says it is queued to be
sent later.  `TxControl_late_audio`: audio starts after a Stop that comes
within the TX delay.

Found on the way, and not runs: with Tune, text typed or sent within the
250 ms after Tune is released loses a frame to the `stopTx` that ends the tune;
with held PTT, a `ptt0Timer` left from a session drops PTT while tuning, and
the update that reports it starts the audio delay; the idle time-out with an
unsent draft marks its first frame as sent.  For the first two reasons
`TxControl_hold` runs without Tune, the theorems about frames and held PTT
assume `~Tuning`, and `AudioWaitsForRigAlways` assumes that held PTT and Tune
do not come together.

*Fairness*: the GUI event loop and its timers, the rig and audio threads and
the clock run on.  No fairness is given to the operator, nor to replies.

*Proofs* (`TxControlProofs`).  Every theorem holds for every number of frames,
replies and signals.  `TypeInvariant`, `PttHasOwnerAlways` and
`EndWillBeSeenAlways` hold for all constants, Tune and held PTT together
included, which no run covers; the others assume `~Tuning`, PTT held or not,
except `AudioWaitsForRigAlways` (above).

Without Tune, none of the properties is inductive: `PttHeldBetweenFrames` needs
to know that a session whose frames are counted has been asked to transmit,
`Framing` needs the counters, `AudioWaitsForRig` needs to know which command an
answer belongs to.  The strengthening `IInv` has three layers.
`SessionInv` relates `m_auto`, the Send button, the two counters and the frame
that is next; it holds even in the middle of `guiUpdate`, so that one lemma per
operator carries it through nested calls.  The edges (`m_iptt0`, `m_btxok0`)
agree with their flags only between handlers; `Remember` restores them.
`RigInv` says that the last command in the queue is the PTT last asked for and
that a waiting answer answers it.  There is one lemma per action; the theorems
are consequences.

With Tune the counters and the session come apart: `stopTx` at the end of a
tune takes a frame of text that nobody has sent.  `SlotInv` keeps what is left
of `SessionInv` then: `g_iptt`, `m_transmitting` and `m_btxok` move together,
the two edge detectors do, and PTT has an owner.  To keep PTT owned, `stopTx2`
must find frames counted only where a session will send them; that holds as
long as `m_tune` is down, because only `on_stopTxButton_clicked` lowers it and
clears the counters with it.  To keep the end of a slot in sight, a pass of
`guiUpdate` must leave `m_btxok` up in a slot that is keyed (`Lit`): a slot
keyed over an edge that was missed is ended in the same pass.  TLC agreed with
`SlotInv`, with and without held PTT, on the sizes of `TxControl_release` with
a slow rig and one reply.  `AudioWaitsForRig` follows from `RigInv` alone where
PTT is dropped between slots.

## DecoderHandshake

Actors: the GUI thread (`Decode`, `DecodeDone`, `SubProcessFailed`,
`Acknowledge`, `CheckHanging`, `Close`, `Closed`), the worker thread
(`WorkerStart`, `WorkerQuit`, `Replace`, `ReadLine`, `NoticeDeath`), the
programs (`Poll`, `Check`, `Finish`, `Wake`, `Fail`) and the clock (`Later`).
Signals between the threads are the queues `toWorker` and `toGui`.  A job is
the number of writes to the shared memory; a program reads the number that is
there when it has seen `.lock` gone and `.quit` absent, and its answer carries
it, so an answer to the wrong job can be told.

`subProcessFailed` and `subProcessError` open a dialog with an event loop of its
own and restart the decoder when it is closed: `SubProcessFailed` and
`Acknowledge` are the two halves, `dialogs` counts the open ones.  The operator
is slower than signals already queued (guard of `Acknowledge`).  `QProcess`
is external: when a program has crashed or is killed, the rest of its output is
read and `error` and `finished` are emitted; an end without a crash concerns
nobody, since `subProcessFailed` returns on `NormalExit`.  `PromptGui` says that
the GUI thread handles the end of a decode within the 100 ms for which the
program sleeps after it has printed it; without it the program decodes the
same memory again and `NoOverlap` fails, as the mutant `Finish_NoSleep` shows.
A program that is well finishes in less than a minute (`Later`).

`DecoderHandshake_faults` (three ranges, four programs, two faults of three
kinds, with closing) checks:
`TypeOK`, in which `queue + shm <= ranges` says that no range is handed over
twice; `NothingDropped`; `NoOverlap`; `ServiceSpec`, the refinement of
`DecodeService`; `BusyEnds` and `QueueDrains`.  Two faults are needed for a fault
of the replacement, four programs so that no restart lacks one before
the exception below applies.
Once a restart is ordered although the decoder is well (`disturbed`), a stale
answer may be taken for the answer to a later job and restarts may follow
without end; the service is then `void` and nothing is promised.  That this
case is reached is what `DecoderHandshake_restart` shows: a decoder that hung is
killed a second after its successor was started, its death is reported to a
`MainWindow` whose `m_valid` is set again, and the healthy successor is
replaced, whose death is reported in turn.  The comment says that such
notifications are suppressed until the restart.

*Refinement*: `stage` is computed from `busy`, the programs and the lines under
way; `job` and `got` are the numbers themselves.

*Fairness*: threads, programs and the clock run on; audio that waits is
processed when it may be (transmissions end); the operator answers dialogs.
No program is obliged to fail, and a hung one does nothing.

*Proofs* (`DecoderHandshakeProofs`), for all numbers of ranges, programs and
faults.  `TypeOK` and `NothingDropped` hold without further assumptions; `TypeOK`
is not inductive, since the number accepted must not exceed the number asked
for: `JobsAsked` says so of every program, line and signal, and `Started` that
the process the worker holds was started once.  `NoOverlap` assumes `PromptGui`.
Its strengthening `SoloInv` holds while the window is open and `disturbed` is
false: at most one program is at work and none when the worker is told to
start another (`StartsAlone`, `OneAtWork`, `OldIsDone`); a line under way was
printed by a program that still sleeps over it (`PipesSleep`, `LinesSleep`); and
with the lock file in place nobody reads (`LockStops`).  The line about
`PipesSleep` is what makes `decodeDone` safe: the program that printed the line
is the only one at work and is asleep, so none reads when the file is made
again.  `SoloStep` carries all of it through every step of a program.

`DecoderServiceProofs` proves `ServiceSpec`, also from `PromptGui`.  What it needs
beyond `SoloInv` is `AnswerInv`, which says under the same condition that at
most one line is under way, that it answers the job in the shared memory, that
the busy flag is set meanwhile (`PipesAnswer`, `LinesAnswer`), and that a program
at work is at work on that job (`DecodesShm`).  Then `decodeDone` accepts the job
that was asked for and no other.  Most steps leave the flag and the job alone:
for them it is enough that no line about the job is lost and that a new one
comes from a program at work on it (`FrozenMaps`).  The rest ask (`DecodeMaps`),
accept (`DecodeDoneMaps`), give up (`RestartMaps`) or make everything void
(`StepMaps`).

## RxAssembly

One second of the GUI's clock is one `GuiSecond`: the part of `guiUpdate` that
runs once per second, with `processActivity` when it is due.  `rx` is a record
of the members that hold what was received, and each of the passes
(`ProcessIdleActivity`, `ProcessCompoundActivity`, `ProcessBufferedActivity`) is
an operator from record to record with the name of the function.  `Line` is
`processDecodedLine` for one line that the decoder prints, in the last two
seconds of a period; `DecodeDone` is the end of the decode; `OtherDecodeDone`
is that of another speed, at any time.  `Send` is the station that sends:
`Varicode::buildMessageFrames` makes a first frame that is a heartbeat or a
directed command, or a compound call followed by a directed command that leaves
its sender open, and then frames of text.  The channel is in `Line` and
`DecodeDone`: a frame for which no line was printed is missed, and a frame may
be printed more than once and at any offset of its place.

- Text is a sequence of fragments, one per frame.  A checksum is valid if the
  fragments are those of a message sent with one.
- Times are ages in seconds, kept up to one second beyond every limit.
- `m_bandActivity` keeps ten lines per offset of which only the last matters.
- `m_rxDirty` is never set in the program, so a pass runs when it is forced:
  at seconds of the day that are multiples of the period, of two less and of two more,
  and when lines wait to be shown.  `OtherActivity` says that other parts of the
  band may force one at any second.
- No message is sent twice: a frame that is repeated at the same offset within two periods is
  taken for a duplicate.  A CQ goes the way of a heartbeat.
- Left out: own transmissions, during which passes run only at the start of
  a period; a change of band, which leaves the buffers as they are; two
  stations that send at once at one place; speeds mixed at one offset; display,
  call activity and spots.

`RxAssembly_mixed`: three messages in a row out of six kinds, each cut short or not, each
frame missed, printed once or twice, at one or the other of two offsets within
the threshold.  Three are enough for the first to leave a buffer behind, the
second to be cut short on top of it and the third to meet what both left.  Two
frames of text are enough for one to be missing in the middle of a command with
a compound call, which has four frames; the other command has one frame of
text.  Periods of 4 seconds
with limits of 8 and 12 are those of the slow mode, in which a period is
30 seconds.  It checks the types and
- `Faithful`: what is acted upon was sent as one message, provided no first frame
  of a message was missed.  If one is missed the frames after it are added to
  whatever buffer is there, and nothing in the protocol could tell;
- `AtMostOnce`: no message is acted upon twice;
- `WholeIsProcessed`: what was heard completely is acted upon, with its whole
  text, by the time the next period begins;
- `BuffersExpire`: no buffer outlives the 90 seconds by more than a period.

Found on the way, stated as properties of `RxAssembly` that TLC finds violated, and
not runs:
- `BuffersAreMerged` (messages `TwoCalls`, places `{0, 1}` and `{1, 2}`, one line a
  frame, a quiet band): a command is put into
  its buffer while another lies within the threshold, which the comment at `mainwindow.cpp:5406` says
  is merged.  If it holds the compound call of another station, the command that follows can
  be given that call.
- `GapIsMarked` (message `Long`, one place, a quiet band, and the real numbers: period 15,
  limits 60 and 90, and a day of 13 * 15 * 17 seconds, after which the passes
  repeat): a frame missing in the middle leaves no ellipsis, because
  no pass need fall between 22.5 and 30 seconds after the frame before.

*Fairness*: none; `WholeIsProcessed` and `BuffersExpire` give the time by which
something has happened as an invariant.

*Proofs* (`RxAssemblyProofs`), for all periods, limits, thresholds, places and
messages, whether the band is quiet or busy.  The assumptions (`RxAssumption`) are
that offsets are finitely many natural numbers, that no station calls itself by
the placeholder of a compound call, and that a heartbeat has no text.

`BuffersExpire` is not inductive: between two passes a buffer may grow older than 90 seconds, and
how much older depends on the clock.  `IInv` says that a buffer is no older than
`DropAfter` and the seconds that have passed of the present period.  A second
either runs the passes, the last of which leaves no buffer older than
`DropAfter` (`ProcessBufferedActivityYoung`), or is not the first of a period
(`ForceDirty`) and so is one further into it (`NextSecond`, where it matters that
a day is a whole number of periods); a line of the decoder makes a
buffer younger or moves it (`ProcessDecodedLineYoung`).  Each pass must also
keep the types of the buffers, or the age of their last part means nothing.
That the commands handed on are commands (`TypeInvariant`) needs the order in
which buffers are visited: `Enumerated` proves that every finite set of numbers
can be counted upward, so `Ascending` names each offset once.

`AtMostOnce` compares what was processed with what was sent, and says nothing of what
lies between.  `OneUnit` counts that: a message with a command has one unit,
which is on air until the frame with its command is handled (`Pending`), then in a
buffer or among the waiting commands (`Total`), and in the end processed; the sum
never exceeds the number of such messages sent.  A line adds to `Total` at most
what it takes from `Pending`, since a frame handled once stays in the duplicate cache
for longer than the decoder may print it again (`LineOneUnit`); moving, merging and
joining buffers add nothing, and a buffer that is handed on is
removed (`TwoParts`).  No distance between places is assumed: a call that drifts into the
buffer of another may garble it, but makes no second command.

`Faithful` does need such a distance, and more.  `FaithfulAlways` assumes two things of what
is sent, and the theorem is false without either:
- `PlacesApart`: offsets of different places are further from each other than the
  threshold.  With places 0..1 and 1..2 and a threshold of 1 the texts of two
  stations meet in one buffer, as with `BuffersAreMerged`.
- `HeadsDiffer`: no message begins with a frame that another contains.  A station
  that sends a command, is cut short and at once sends the same command with
  another text begins with a frame that is taken for a duplicate, clears
  nothing, and the second text is added to the first (hazard at `mainwindow.cpp:5121`).

`RxAssembly_mixed` satisfies both.  `FromInv` is the invariant.  What is on air is the end of
the last message sent (`OnAirOK`); every frame in the duplicate cache is of some message, and
while the first frame of a message is still to come none is of that one, so
it is not a duplicate (`CacheOwned`); every buffer is of some message, none of whose texts it
holds beyond those that can have been decoded (`From`, `Reach`, `BuffersOwned`);
and once the first frame has been decoded, which has cleared what was
near, all that is near is of the message on air (`PlaceOwned`), so the next frame may be added
(`LineFrom`).  The passes of `processActivity` only ever make a buffer of the buffer at its offset and a
command of one buffer (`Derived`), whichever order they visit them in.  A missed
first frame is the one way out, and is excluded by `Timing`: a period does not end
before the decoder is done, and then either the frame was printed or `headless` is set.

`WholeIsProcessed` is the converse: nothing the other passes do may cost a message
that was heard frame by frame its buffer, its place or a part of its text.
`WholeIsProcessedAlways` assumes `PlacesApart` and two more things:
- `KeysDiffer`: no two frames are alike, of one message or of two.  The second
  of two like frames at one offset within two periods is dropped as a duplicate, and its
  message with it.
- `Patient`: a period and a second are within `CloseAfter`, two periods and a second
  within `DropAfter`.  All modes have it: 31 and 61 seconds for the
  slowest, of 60 and 90.

`RxAssembly_mixed` satisfies all three.  `HeardInv` is the invariant, beside `FromInv`.  It
follows the message on air: once a frame has been decoded, and none missed, either the
message has been acted upon already, which happens before its text if its command is not
buffered, or there is a buffer near its place that holds exactly the frames
so far, no older than the last of them, whose offset is in the band (`Progress`, `Buffered`).  How
far such a buffer has come is `Stage`: a call, a command, a command and so many
texts, or all of it.  A line finds that buffer, since any other near its offset
would have to be near its place, and takes it a stage further (`LineStage`,
`LineProgress`); the frame is not in the cache, since only frames already decoded
are (`CacheWhose`).  A pass of `processActivity` leaves the buffer at its stage,
joins the call to a command of its own offset, or hands the whole of it on
(`PassStage`); the other buffers it visits first do not touch it, and that it is not handed on
half is because only the last frame closes it and it is younger than `CloseAfter`.
When the last frame has been decoded the passes that begin the next period hand
the message on (`WholeMade`, `HeardWhole`).

## RigControl

Two threads.  On the GUI thread `Configuration` keeps `cached_rig_state_` and
numbers its commands; `MainWindow` keeps the last state it was told (`known`,
which is `m_rigState`), the frequency it means to be on (`nominal`,
`m_freqNominal`) and `m_tx_when_ready`.  `PttOn` is what `guiUpdate` does as
a transmission begins: `setRig`, which sends `nominal` once more, and `emitPTT`,
two commands one behind the other; `setXIT` sends nothing without split.  On
the rigs' thread a
`Transceiver` object carries commands out and polls the radio.  The two queues
`toGui` and `toRig` are Qt's queued connections; an object is heard only while
Configuration is connected to it (`Connected`, `Emitted`), but what it has
posted before it is disconnected stays in the queue.  `Transceiver` has no
variables: `Steps` is `TransceiverBase::set` as four steps, each of which may
fail before or after it has reached the radio; `Polled`, `Signals` and `Synced`
are `do_sync`; `Shutdown` is what `offline` and `stop` share.  `Offline` is a step
of its own since the signal `failure` is emitted before the shutdown.

The radio shows a new frequency only after up to `MaxLag` polls, may fail at any
operation, and has a dial that the operator may turn.  `rigFailure` presses Stop,
tries again by itself the first time and asks the second time; the message box
runs an event loop, so that boxes may lie on one another (`dialogs`).  While
Settings is visible a failure is only reported.

`RigControl_faults` (two frequencies, three polls to stabilize, a lag of up to
two polls, four rigs, four moves of which commands cost one and everything else,
faults included, two, and commands only while no more than `MaxPending`, three,
events wait for the rigs' thread with them) checks:
- `QsyStands`: the radio is where the last QSY put it, whatever PTT, polls and
  late reports follow.  It does not stand, and the property says so, if since that
  QSY an operation has failed or a rig been opened (`wanted` is 0 then), or if one
  of `Spoilers` applies: the dial was turned by hand, or was before and no poll has told it yet
  (`turned`, `untold`); an update of before a command has overwritten what
  Configuration sends next (`crossed`); `set()` took the QSY for none (`ignored`).
  Each QSY starts with none of them, but for a dial whose turn was not told yet.
- `AudioOnKeyedRig`: while a rig is open audio starts only on a radio that
  transmits;
- `ReopenStands`: a rig that `rigOpen` has opened after a failure is closed by
  nothing its predecessor has said;
- `Released`, `Converges`, `AudioStarts`: PTT is released in the end,
  MainWindow comes to know the radio, and no transmission waits for ever, unless
  `known` still shows the PTT of the one before: `m_tx_when_ready` is
  only looked at when PTT rises in what MainWindow was told.

The last two spoilers are the program's own doing.  `RigControl_dropped`, expected
to fail, has the same constants and does not excuse `ignored` (`QsyApplied`):
QSY from 1 to 2, a poll that
still shows 1, QSY back to 1.  The poll has made 1 the requested frequency
(`update_rx_frequency`), so `set` finds nothing to change, and the radio
stays on 2, though `Transceiver.hpp:120` says that `set` applies the state.

Four moves are two failures, the second of them during the reopening that
follows the first, or one failure and a command on each side of it, or four commands;
the lag is shorter than the polls by one, or none.  The safety properties were
also checked, outside the runs, with five moves and five rigs (3 million states).

*Fairness*: both threads go on with what is queued, and an object that polls goes
on polling.  Nothing is asked of the operator.

Found on the way, and not runs:
- An update of before a command
  overwrites the cached frequency (`Configuration.cpp:3819`) *before* its number is looked
  at, although `Transceiver.hpp:122` says that the number avoids just that; the command that
  releases PTT then carries the old frequency and sends the radio back.  (The one
  that puts PTT on does not: `setRig` has sent `m_freqNominal` before it.)  This is
  `NoPingPong`, which does not excuse `crossed` and which TLC finds violated with the
  constants of the runs.
- If the state expected is expected already, the count of polls is not started
  anew.
- What a rig had posted before it failed can close a rig that was opened *by hand*
  (Settings, or `have_rig` on a QSY) in between; the next `rigOpen` opens a further
  one, to which the same may happen.  `ReopenStands` therefore speaks of rigs
  that `rigOpen` opened with none opened since the failure.
- With Settings visible a failure does not press Stop; an update behind it can
  then start audio while no rig is open, hence `active` in `AudioOnKeyedRig`.

Left out: mode, split and `EmulateSplitTransceiver`; held PTT; Monitor switched off (`setRig`
then sends nothing); back ends other
than Hamlib; a poll interval of zero; Cancel after Test CAT when no rig was open.  The PTT the radio
reports is the PTT it has.

*Proofs* (`RigControlProofs`), for all frequencies, rigs, moves, lags and polls.
`TypeInvariant` goes through each step of `set`.  `ReopenStands` rests on
`QueueOK`, a statement about the order of the GUI queue: once `rigOpen` has opened
the rig, the queue holds only what that rig has said; and behind an attempt that
is to follow the present rig there are only further attempts, and the rig is
closed.  The second half is what makes the first hold when the attempt is
handled: whatever the failed rig had posted stands before it.  `QueueTail`,
`QueueSaid`, `QueueOpen`, `QueueClosed`, `QueueNext` and `QueueOwn` carry it
through everything that happens to the queue; the lemmas of the actions only cite
them.

`RigCommandProofs` proves the other two, for any number of rigs, commands, faults and
turns of the dial.  `CommandsInOrder` comes first: the commands that wait for
the rigs' thread are in the order of their numbers, a rig is started before and
stopped after everything else it is told, and what is told to the GUI carries a
number below every command still to be carried out.  On this `CommandInv` rests,
in four parts.  `RigHeard`: as long as no failure waits
to be heard of (`Heard`), the open rig is about to be started or is `Running`
alone, what it holds of the
radio is what the radio does (`Follows`), and it looks for a new frequency for longer
than the radio takes to show it (`Tracks`, while `Steady`: a dial turned by hand
has been told of).  `PttHeard`: an update that
answers the last command and speaks of PTT is told of a radio that transmits.
`WantedPosted`: while no spoiler applies (`Stable`), the frequency of the last QSY
is in the last command that waits
or, if none waits, on the radio.  `WantedHeard` is what makes that inductive: it is also in
what Configuration and MainWindow would send next and in every update that would be taken for
an answer, since the next PTT command carries the frequency on.
`AudioOnKeyedRig` follows for any lag.  `QsyStands` is proved for
`MaxLag < PollsToStabilize`, as in the run: with a slower radio the polls run out
while it still shows the old frequency, which then becomes the one requested.
Liveness is model-checked only.

## Mailbox

Every station runs the same program.  `Rows` and `Reply` are what
`processCommandActivity` does to the table `inbox_v1` and what it answers, for MSG,
MSG TO:, QUERY MSG, QUERY MSGS, SNR?, heartbeats, ACK and the relay command;
`Transmit` sends the first of the queued replies, is heard by any of those it is
for, and is answered by any of those that heard it: a station may be busy, have
autoreply off, or an operator that says no.  The row is written whether or not
the reply goes out, as in the code.  `Path` is `parseRelayPathCallsigns`.  The
operators write, leave, ask (with any number), show and delete messages.

`Mailbox_store`: an author who also relays, a store and a reader; two messages,
four moves, two replies waiting.  Four moves leave a message, offer it, delete it
or hand it out, and ask again; the relay may stand on either side of the
store.  It checks `Private`, `OfferHonoured`, `NotOfferedAgain` and `Quiet`
(replies die out).

*Fairness*: a station sends what waits; nobody has to hear it.

Found on the way: a message is marked DELIVERED before the reply is queued, which may
then be skipped or lost, and it is never offered again, though it may be fetched by
its number; MSG TO: is acknowledged even if it could not be stored; the
allcall cache holds four entries (a cost of 25 out of 100), and its comment speaks of
ten minutes where the code has fifteen; two stations whose last message
is AGN? to each other repeat it for ever.

Left out: AGN?, INFO?, STATUS?, GRID?, HEARING?, QUERY CALL, groups, compound
calls, the allcall cache, a data base that fails, and the ten rows after
which `getNextMessageIdForCallsign` stops looking.

*Proofs* (`MailboxProofs`), for any stations, relays and messages, and any loss.
`Private` alone is not inductive: a row becomes a packet and a packet becomes a
row.  `GoodPacket` says that a packet with a text goes where the text was written
for or to one that keeps it for that station, along whatever route is left of
it, `GoodRow` that a row names that station; relaying and handing out preserve both since the end of
the path that is stepped along is the `Origin` that was compared with TO.
`Later` says that a table only grows and that a row's text and addressee never
change, so numbers once offered stay good (`GoodOffer`) and what was taken stays
DELIVERED or deleted (`GoodTaken`), which `getNextMessageIdForCallsign` passes over.
`Quiet` is model-checked only.

## DecodeSchedule

Audio is counted in samples, 12000 a second and 720000 a minute, and arrives in
blocks of 3456.  The counters are those of the program, not scaled.  `DataSink` is
what the GUI thread does for a block: `Queued`
are the conditions of `decodeEnqueueReadyExperiment` for each speed with the
positions it remembers, `MayStart` is `decode`, and what is handed over is
judged by `Intact`: where block `j` was heard everything beyond it has been set to
zero by `symspec` at the turn of the minute.  Transmissions begin and end at any
time, decodes last any time, and the clock may be moved (`Drift`), which turns
the contents of the ring.

What is decoded is one of the sets the program decodes (`Modes`, `AutoSync`): all
four speeds (`Multi`, the default of the menu) or the one of the station
(`Speed`), and with automatic drift (`AutoDrift`, the group mode of the wide
graph) those of Normal and Slow among them with a window of a whole cycle every second.

*How long a decode may last.*  Nothing in the code bounds it, so the model does
not; but a decode that runs for a whole cycle does lose the cycle, and a
property has to say which decodes it excuses.  `Prompt(m)` is the length, in blocks of 0.288 s,
up to which none is excused:

    automatic drift   Normal 8 (2.3 s), Slow 16 (4.6 s)
    otherwise         Normal 5 (1.4 s), Fast 4 (1.15 s), Turbo 4, Slow 13 (3.7 s)

Without automatic drift only the decode counts that is still running when a
whole transmission of the cycle is there and not yet handed over (`Late`): the decodes
of the cycle's earlier, short pieces, while the transmission is still being sent, may
take any time, and so may the one that decodes the transmission, over the turn of the cycle
and into the next.  The lengths are exact, that is, TLC finds the property violated with one
block more for Normal, Fast, Turbo (alone) and Slow, and for both speeds with
automatic drift.

The runs:
- `DecodeSchedule_minute` is the default, all four speeds without automatic
  drift, through minute after minute.  `EveryPeriod`: two seconds into the next
  cycle, a cycle that was listened to from beginning to end has been handed over
  with a whole transmission in it, whatever the decoder and the transmitter do
  at the turn, unless a decode was `Late`.  One Turbo cycle in ten is excepted while other
  speeds are decoded beside it, the last of the minute.
- `DecodeSchedule_drift` is Normal alone with automatic drift, with one jump of the clock by 2.9 s.
  `EverySignal`: a fifth of a cycle (3 s, at the Slow speed 6) after a
  transmission has ended it has been whole in a window that was handed over,
  wherever in the minute it began, if since then the station has not
  transmitted, the clock was not moved, no decode lasted longer than `Prompt`, *and
  the minute has not turned*.  `unheard` is the first position from which
  a transmission need not have been whole in a window yet; `Covered` moves it.  This run
  also checks the types.

Found on the way, stated as properties that TLC finds violated, and not runs:
- `EveryPeriodOfAll` (constants of `DecodeSchedule_minute`) does not except that Turbo
  cycle.  It may end a block early
  by the samples.  Its only piece that is long enough then comes while the second
  runs for which `decode` waits after a start that another speed has caused, and
  before that second is over the minute turns
  and `symspec` zeroes it (`symspec.f90:65`), though `commons.h:11` speaks
  of a ring buffer used instead of clearing.  No bound on decodes helps.
- `EverySignalAtTheTurn` (Normal alone with automatic drift) asks what `EverySignal` leaves
  out.  A transmission that ends after the
  last window of a minute is whole in none, since everything beyond the new position has
  been zeroed when the next one is handed over; the same holds for one that lies across the turn.

No bound but `MaxDrifts` limits a behaviour: `started` and `stopped` are counted
as far as anything depends on them (`Long`, `Quiet`).

*Fairness*: none; the properties give the times.

*Proofs* (`DecodeScheduleProofs`), for every way of decoding, any drifts and any
number of minutes; no theorem has a hypothesis on the constants.
`TypeInvariant` says that every position the
program remembers, every range it queues and every range it hands over lies in the
ring, at whatever moment decodes, transmissions and jumps of the clock come.

`EverySignal` (`EverySignalAlways`) rests on `SignalInv`: blocks
keep to their grid (`OnGrid`); what is queued of a speed ends where its next range
is counted from (`Pending`); and each speed with automatic drift is either
`Windowed` or `Fresh`.  `Windowed`: since a window was handed over a range has been
queued at every fourth block, the last of them in the queue unless it
was handed over too, and no more blocks have passed than the decoder
has been busy and the three in which it is not due.  `Fresh`: since the station began to listen
no window has been handed over, and it was no longer than the queue, the pause
after a transmission and one decode make it.  A hand-over empties the
queue of every speed at once, so no speed waits for more than one decode; that is
why the bound does not depend on how many are on.

`EveryPeriod` (`EveryPeriodAlways`) rests on `PeriodInv`, which follows a cycle from its
first block, as long as the
station is silent and the clock left alone (`Listened`), and keeps the result into the
next (`Kept`).  `First` is the position
from which ranges are due, 3/2 seconds before the last symbol.  Up to there
the position that ranges are counted from has not passed the 3/2 seconds in which
they are due at the beginning of the cycle (`Early`); so one is due at `First`, and from then on at
every fourth block (`Phase`).  The third of them is long enough for a transmission with
its delay; from then on either a whole piece was handed over or one is
queued (`Waiting`) and the decoder was started no later than when it was queued, so that after
`Prompt` blocks at most it is free and has waited its second.  What `MayStart` demands
after a transmission is over by then, because the cycle was silent from its
beginning.  At the turn of a cycle all of it but a block has been heard, at the turn of a minute all
but 4608 samples (`LastBlock`): the turn comes at block 207 or 208.  Only Turbo has
one cycle, the last of a minute, in which that is not enough; if it is decoded alone the
invariant counts blocks there (`LastCycle`): the decoder is free when the last piece comes since all it was
given before was given by block 203.  Both invariants were checked with TLC
before they were proved.

Left out: a GUI that is late with a block, a jump past the turn of the minute
(after which blocks are off their grid until the next), a missing lock file
when the queue is emptied, samples torn inside a copy, decoding from disk.

## What is only model-checked, and what is not modelled

TLAPS has no proof rules for fairness, so liveness is checked by TLC only.  The
refinement of `DecodeService`, which states no fairness, is proved.  Of the safety
properties every one is stated by a theorem: `Faithful` and `WholeIsProcessed` of
`RxAssembly`, `EverySignal` and `EveryPeriod` of `DecodeSchedule`, and the frame
properties of `TxControl` (no Tune) under the conditions given there.

Components with status `not_modelled` in `PROJECT.json`: heartbeat and CQ
repetition, band hopping and the station list (timers in `guiUpdate` that start
what `TxControl` models as a queued message); the network clients (queues
written to sockets, whose other end is not here); text coding (pure tables
and bit packing, checked better by running it); the user interface; and the signal
processing, which is numerical.

Every property has a mutant: a small change of a definition (an operator
named `..._Something` before it, with a comment) under which TLC finds the
property violated.
