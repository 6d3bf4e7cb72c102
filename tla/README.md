# A formal model of ARM-dev

ARM-dev is a small server for an ARM board with a camera, a temperature sensor,
an LED, a buzzer and a GSM modem. It streams JPEG pictures to an Android client,
obeys that client's commands, raises an alarm when it gets hot, and takes keys
from a console. This directory holds TLA+ modules that model the program and the
parts of the JPEG library it carries with it, the TLC configurations that check
them on small instances, and theorems checked by TLAPS. Paths below are relative
to the repository (`src/` here is its root).

## 1. Inventory

The program's own code is about 1300 lines of C. One process runs `main` and
four threads. `jpeg-8d/` is libjpeg 8d, vendored; it is 97 % of the
C code.

| component | code | state it keeps | operations |
|---|---|---|---|
| main | `main.c:119-163` | four thread ids | create four threads, join them in a fixed order, return |
| console thread | `main.c:38-115` | – | keys s/r (`cFlag`), o/x/l/k (on-flags), g (`gprs()`), q (`flag_alarm`, end) |
| picture thread | `tcpserver.c:142-245` | connection, `flag_peer_shutdown`, `wait`, `sended` | listen on 8888, accept, poll `cFlag`, capture, send in packets, give up, close |
| command thread | `tcpserver.c:9-140` | connection, `scanfd`, `buff` | listen on 8889, accept, select, recv, obey S/s/B/b, close |
| alarm thread | `alarm.c`, `alarm_copy.c` | last reading, `led_flag`, `beep_flag` (or `led_state`, `beep_state`) | read the sensor, treat the LED, treat the buzzer, look at `flag_alarm`, close |
| text messages | `gprs.c` | the serial line and the modem behind it | open, `serial_init`, four `write()`s, close |
| camera | `camera.c:184-350` | V4L2 buffers, `src_jpeg` | set up, start, dequeue/compress/queue, close (never called) |
| JPEG and framing | `camera.c:55-182` | destination manager, `dest_jpeg`, `send_buffer` | YUYV to RGB, compress, length header |
| temperature publisher | `alarm.c:106-183` | – | commented out |
| libjpeg: DCT | `jfdctint.c`, `jidctint.c`, `jcdctmgr.c`, `jddctmgr.c` | divisor and multiplier tables | 32 sizes of transform each way, quantize, dequantize, clamp |
| libjpeg: Huffman | `jchuff.c`, `jdhuff.c` | `last_dc_val`, `EOBRUN`, correction bits, restart counters, symbol counts | code and decode an MCU, count, make tables, restart, suspend |
| libjpeg: arithmetic | `jcarith.c`, `jdarith.c`, `jaricom.c` | interval, stacked bytes, statistics bins | code and decode an MCU, flush, restart |
| libjpeg: scans and passes | `jcmaster.c`, `jcparam.c`, `jdinput.c`, `jdcoefct.c` | pass and scan numbers, `Ah`/`Al` per coefficient | validate and reduce a script, prepare and finish passes, go from scan to scan |
| libjpeg: markers | `jdmarker.c`, `jcmarker.c` | `unread_marker`, `next_restart_num` | find, read and resynchronize restart markers; write markers |
| libjpeg: the rest | colour, sampling, quantizers, memory, errors, tools | – | see section 5 |

How they interact:

* by four plain `int` globals. `cFlag` (console writes, picture thread reads),
  `led_on_flag` and `beep_on_flag` (console and command thread write, alarm
  thread reads), `flag_alarm` (console writes, alarm thread reads). Each writer
  locks a mutex of its own (`main.c:40`, `tcpserver.c:18` are local variables)
  and the readers lock nothing, so nothing excludes anything;
* by calls: the picture thread sets up the camera and calls it, the camera calls
  libjpeg, and libjpeg calls the destination manager in `camera.c` back; the
  console and the command thread both call `gprs()`;
* by rings: V4L2 buffers go round between the driver and the picture thread;
* by the process: almost every failing call ends it with `exit`.

`alarm.c` and `alarm_copy.c` define the same functions and the Makefile puts both
objects into `libalarm.a`; the linker takes the first it finds, so both are
modelled.

What is hard, and what each part owes:

* picture thread – connections that break inside a packet, frames of awkward
  lengths, a pause that may come anywhere. Owes: whole frames in order on every
  connection; a pause that takes effect; no client kept once it is gone.
* command thread – a time-out racing a command, bytes left in a buffer, resets.
  Owes: a command is obeyed at most once and in order, no more is lost than the
  time-out explains, the next client is served.
* alarm thread – arming in two places, the gap between testing a flag and telling
  a device, a stop in the middle of a blink. Owes: both devices in step, devices
  lit for a reason only and not left sounding, requests honoured, the stop obeyed.
* main – creation may fail, joins block. Owes: no running thread cut off.
* text messages – two callers on one modem, failures nobody looks at. Owes: a
  message for each one reported.
* camera – the driver writes while the thread reads, a buffer of 4096 bytes that
  fills in the middle of an MCU, a `select` that timed out. Owes: whole pictures in
  order, no buffer lost.
* DCT – fixed-point sums of different scales in 32 nearly equal functions. Owes:
  the DCT, in the range the coder can code, and no loss when a picture is edited.
* entropy coders – a run of ended bands with its correction bits, carries, tables
  made from a trial run, a decoder that is interrupted anywhere and starts again,
  damaged data. Owes: the coefficients that were coded.

`PROJECT.json` lists these as hazards, each at its line.

## 2. The modules

| module | models |
|---|---|
| `PictureFeed` | what a client of port 8888 is promised: whole frames in order on each connection, cut short only when it is lost |
| `PictureSender` | `socket_send`, with the console keys, clients and the socket around it; implements `PictureFeed` |
| `CommandReceiver` | `socket_recv`, with clients, kernel buffer and `select` |
| `AlarmPanel` | what the other threads may expect of `func_lm75a`, whichever definition is linked |
| `Alarm`, `AlarmCopy` | the two definitions, both implementing `AlarmPanel` |
| `Program` | `main`, the console thread and the life of the process, composed with `AlarmPanel` |
| `Gprs` | `gprs()` called by several threads, and the modem as far as the code relies on it |
| `FrameSource` | what the picture thread may think of the camera: pictures in order, few of them old |
| `ByteSink` | what libjpeg expects of a destination |
| `JpegDestination` | the destination manager and libjpeg's two ways of writing through it; implements `ByteSink` |
| `Camera` | `get_send_buffer` and the driver, composed with `JpegDestination`; implements `FrameSource` |
| `FixedPoint`, `ForwardDct`, `InverseDct`, `DctManager` | the integer transforms and the tables around them, as operators |
| `Transforms` | one block compressed, shown and compressed again |
| `Scans`, `HuffTables`, `HuffEncoder`, `HuffDecoder`, `ArithTable`, `ArithEncoder`, `ArithDecoder`, `MarkerReader` | scripts and MCUs, tables, the four entropy coders and restart markers, as operators on their state records |
| `Lists` | folds over the long lists the coders work through |
| `Compressor` | the compressor's passes through a script, with the Huffman or the arithmetic coder |
| `EntropyCoding` | `Compressor`, damage on the way, and the decompressor's scans |
| `PictureProofs`, `CommandReceiverProofs`, `AlarmProofs`, `AlarmCopyProofs`, `ProgramProofs`, `GprsProofs`, `TransformsProofs`, `JpegProofs` | the theorems; `PictureProofs` has those about `PictureSender`, `JpegDestination` and `Camera`, `JpegProofs` those about the entropy coders, `Compressor` and `EntropyCoding` |
| `MCPictureSender`, `MCCommandReceiver`, `MCCamera`, `MCTransforms`, `MCEntropy` | the instances TLC checks |

Conventions. A thread is a program counter with one action per step between two
accesses that another thread, a client or a device can see; local computation is
folded into the step it feeds. Setting up is one action that succeeds or ends the
process. Variables and functions keep the names of the source. Variables marked
*history* record what has happened so that a property can speak of it; no guard
depends on them. Definitions marked `MUTANT` are not part of any specification:
each is a way the code could plausibly be wrong, and shows that some property
would notice.

### PictureSender

`Poll` is `if (cFlag == 0)`, `Grab` is `get_send_buffer` and the two assignments
after it, `SendPacket` is one round of `while (wait > PACKET)`, `GiveUp` and
`SendRest` what follows the loop, `CloseConnection` the `close`. `send()` takes
everything, or takes a part and breaks, or returns -1. `peer` says whether the
connection still lives: the program does not see it, `send()` does. A frame is
its number and its length; where it comes from is `Camera`'s matter.

`cFlag` is not `volatile`, nothing in the waiting loop writes it, and the
sub-Makefiles compile with `-O2`: a compiler may read it once and loop for ever.
gcc does so with that loop (one load, then a jump to itself). Since it depends on
the build, `hoisted` is chosen at the start and never changes; `spin` is where a
build that hoists ends up. The liveness properties are about a thread that does
not spin (`Released`).

The constant `Interrupts` admits a stop signal that ends a `send()` early on a
live connection. It is FALSE in the run and assumed so in the theorems. The
code is not proof against it: `SendRest` ignores how many bytes were taken, and
with `Interrupts = TRUE` TLC finds `FeedSafety` violated.

### CommandReceiver

`Select` and `Recv` are separate actions because clients act in between: `recv()`
is called whatever `select()` said. Every byte sent has a number, so that
*obeyed* and *ignored* can be told apart per command. Only the first byte of a
`recv()` is a command; what else it brought is dropped by the code and not
counted as ignored. The four commands and one other byte are told apart.

### Alarm, AlarmCopy, AlarmPanel

The LED and the buzzer are treated by the same code twice, so the modules have
one set of actions and a variable `at`, the device in turn. A reading is `cool`
(below `TEMP_VAL`) or `hot`; a failing `read()` leaves `data` as it was, and
nothing defined in the first round. `ReadRequest`/`Apply` (and `Decide`/`Apply`)
separate the test of a flag from the `ioctl` it decides. At the start a device is
as the last program left it. `ioctl` itself is taken to succeed; its result is
not looked at in the code.

`AlarmPanel` is the common part: a device is lit only when it is hot or because
its flag was seen set, unwanted devices go dark, and quitting closes the devices
with no intention half done. Its `intent` is, in `Alarm`, a flag read as 1 and
not yet applied; in `AlarmCopy` a state decided and not yet applied.

### Program

The threads' lives and the flags. The alarm thread's steps are `AlarmPanel`'s own
actions, so what is shown holds for either definition; of the picture and the
command thread it needs only that they never return, that they may end the
process, and that commands write the on-flags. `pthread_create` reports failure
with a positive number while the code compares with -1, so a failure leaves the
thread `failed` and `main` going on; joining it passes an uninitialised id, which
returns at once or crashes. Keys are grouped by what they write. Other keys and
the end of the input change nothing and are not actions. The `pthread_exit` of
`main.c:107` makes the `exit(1)` after it dead code; between the flag and that exit
(`KeyQuit`, `ConsoleExits`) the alarm thread may already have seen the flag.

### Gprs

One program counter per caller, any number of callers. The modem is external: a
command is taken as a command, or, between `AT+CMGS` and the end of a text, as
part of the text. A `write()` may fail as a whole (`Faults`); one that is cut short
is not modelled, nor is a modem that is slower than its dialogue.

### JpegDestination, ByteSink

A byte is the picture it belongs to and its place in it, so that a byte left over
from an earlier picture is told from the right one. libjpeg writes in two ways: the
marker writer moves `next_output_byte` and `free_in_buffer` themselves, the
entropy coder moves copies of them and stores them back at the end of an MCU
(`coding` tells them apart). `empty_output_buffer` therefore meets stale values of
both and rightly looks at neither: it copies the whole buffer. `ByteSink` only knows
a sequence of bytes of one picture.

`dest_jpeg` is not bounded by the code: how many bytes libjpeg makes of a picture is
compared with nothing. `Capacity` is its size, and pictures that fit are assumed.

### Camera, FrameSource

`InitVideoDevice` stands for `init_video_device` and `ready_for_capture`, called by
the picture thread itself. `Select` may time out, which the code treats as if it had
not; `Dequeue` then blocks until the driver has a picture. `CopyPicture` is the
`memcpy` into `src_jpeg`, `StartCompress`, `Compress` and `FinishCompress` the
compression through `JpegDestination`, `Frame` the header and the copy into
`send_buffer`, `Requeue` the `VIDIOC_QBUF`. The driver (external) fills the buffers in
the order it got them and keeps filling during a pause; a buffer it writes is `Torn`.

A driver may grant fewer buffers than the four asked for, even one. Capture then
alternates with compression, and the call still returns. `reqbuf_count` is
`v4l2_reqbuf.count` as the driver returned it. A process that ended is `exited`, or
`aborted` when it ended inside the compression (`CompressFails`: no memory for a line, an
error of libjpeg) with a picture in its hands.

### FixedPoint, ForwardDct, InverseDct, DctManager, Transforms

Each function of `jfdctint.c` and `jidctint.c` is two passes of one-dimensional
kernels and a rounding shift, and the files repeat sixteen kernels in 32 functions
with differing constants. The modules have one operator per kernel and size, a
record of its constants per pass, and the table of which function combines which.
Common subexpressions are kept, intermediate names mostly not. Samples are centred
at 0. Numbers are mathematical integers: the sums stay far below 2^31 for 8-bit
samples.

`Transforms` takes one block through `Compress`, `Decompress` and `Recompress`. The
program takes the first step with 8 x 8 (luminance) and 16 x 16 (chrominance)
samples, its viewer the second, a program that edits pictures the third. The
reference definition `Dct` is the cosine sum with 12 fraction bits. The quantizers are
positive (`TablesAssumption`), as `jpeg_add_quant_table` makes them (`jcparam.c:52`), and
a block is full of samples between -128 and 127 (`BlocksAssumption`).

### The entropy coders, Compressor and EntropyCoding

The state of a coder is a record and an MCU takes it to the next; `out` is what the
call emitted. Emissions are abstract (a symbol of a table, some bits, a marker), so
that the gathering pass counts them and the output pass codes them, which is how the
two are compared. A decoder reads a sequence of data units: bits for Huffman, bytes
for arithmetic, and markers.

`Compressor` has one action per call: `prepare_for_pass`, `EncodeMcu` and
`finish_pass_master`, over any sequence of jobs. `EntropyCoding` extends it with
`DamageData` and the decompressor's `start_input_pass`, `DecodeMcu` and
`finish_input_pass`; a file is written before it is read, and the reader has variables
of its own. In `DecodeMcu` the source may have delivered only a part of the
data: the call is given up, what it did to the image's arrays stays, and the MCU is
decoded again from the saved state (`AtWork` is the working copy). `DamageData` loses or repeats one stretch of
bytes with at most two restart markers in it.

Left out, all of it data: the 00 stuffed after an FF byte (so a lost stretch never
splits such a pair), the lookahead tables and the bit buffer's read-ahead (they let
the decoder give up earlier, never later), more than one row of MCUs and dummy
blocks, the zigzag order (coefficients are numbered as they are coded), arithmetic
conditioning other than the default, and the contents of the MCU buffer after a
single-scan call was given up, which the next call clears.

## 3. The runs

Every configuration has `CHECK_DEADLOCK FALSE`: the process may really end (any
failing call exits) and the threads may really wait for ever for a client, a key
or a call that nobody makes; in `Alarm` and `AlarmCopy` the thread closes; a block
and a picture are coded once.

| run | shows |
|---|---|
| `sender` | `SenderInv`, `PauseWithinOneFrame`, and `FeedSafety`; once pictures are allowed for good, `FeedLiveness` (lost clients are given up) and `FramesFlow` |
| `receiver` | `ReceiverInv`, `ObeyedOnceInOrder`, `IgnoredOnlyAfterSilence`, `ReconnectServed` |
| `camera` | `CameraInv`, `SinkSafety` (`ByteSink` implemented), `SourceSafety` (`FrameSource` implemented), `CallReturns` |
| `alarm` | `ArmedTogether`, `AlarmInv`, `PanelSafety` and `PanelLiveness` (`AlarmPanel` implemented), `RequestHonoured`, `ArmedAlarmBlinks` |
| `alarm_hot_at_boot` | violated: hot from the start, the alarm is never raised (comment of `alarm.c:45`) |
| `alarm_copy` | `CopyInv`, `PanelSafety`, `PanelLiveness`, `RequestBlinks`, and `HotRaisesAlarm`, which the other definition lacks |
| `program` | `ProgramInv`, `NoThreadCutOff`, `QuitReachesServers` |
| `gprs` | `GprsInv`, `SuccessMeansSentAlone`, `ModemNotLeftInText`, `LossLeavesTrace`, `NoMessageTwice` |
| `gprs_interleaved` | violated: two overlapping calls print "message send success !" (`gprs.c:157`) twice for one garbled message |
| `transforms` | `ForwardIsDct`, `CoefficientsEncodable`, `RecodingKeepsPicture` |
| `transforms_twelve` | violated: where the first pass has 12 or 14 points the forward transform is not the DCT (`jfdctint.c:2712`) |
| `entropy` | `CodingInv`, `PrecisionReached`, `CodedWithoutError`, `DamageContained` |

`SenderInv`, `ReceiverInv`, `CameraInv`, `AlarmInv`, `CopyInv`, `ProgramInv`,
`GprsInv` and `CodingInv` are the inductive invariants of section 4.
`DarkAfterHotRound` is a part of `AlarmInv`, `DarkAfterEachRound` of `CopyInv`,
`CorrectionBitsFit` of `CodingInv`, by way of `CompressorInv`.

Bounds, and why they are enough.

* `PACKET = 2` and frame lengths 1, 2, 3 and 5: shorter than a packet, one packet
  (no round of the loop), just over one, and more than two rounds with a rest.
  The code only compares and subtracts, so longer ones repeat these.
* `LastFrame = 2`: frame numbers wrap after three, which is enough to tell the
  same frame, the next one, and any other. `MaxBacklog = 2` clients wait at most;
  the counters `late` saturate at 2, one more than the property allows.
* `BUFFLEN = 2` with 3 bytes sent in all and 2 clients: commands arrive alone, two
  in a read, more than a read takes, after a silence, before a reset, and from a
  client after another.
* the alarm modules are finite as they are.
* `MaxCalls = 4` for two callers: two overlapping pairs, so that what the first
  pair leaves in the modem can spoil the second. With `MaxCalls = 2` in
  `gprs_interleaved` the shortest counterexample exists.
* `OUTPUT_BUF_SIZE = 2`, `Capacity = 4`: pictures of one to four bytes, so that the
  buffer fills inside an MCU, at its end, at the end of the picture, or not at all,
  once or twice. `MaxBuffers = 2` buffers, of which the driver grants one or two:
  the ring with and without a buffer to spare. `LastPicture = 3` tells more pictures
  apart than the ring and the thread can hold.
* all 28 sizes of the transform without a 12-point or 14-point first pass in
  `transforms`, the other four in `transforms_twelve`. The waves are the blocks on
  which a coefficient is largest: all 64 for the program's two sizes, the diagonal for
  the others; they saturate every coefficient in turn. The corners give every row and
  column a different sum, without clamping. The quantizer tables are flat at 1, where
  nothing is rounded away, and a ramp that is not symmetric, so that rows and columns
  cannot be confused.
* fourteen pictures in `entropy`: both coders, sequential, progressive by
  `jpeg_simple_progression` and by a script of its own, standard and optimal tables,
  one and three components, restarts, a source that stops after any of the next 40
  units of data, and damage anywhere. `MaxCodeLength` is 6 instead of 16 for the tables
  that are made, `MaxEobRun` 3 instead of 0x7FFF, `MAX_CORR_BITS` 66 instead of 1000 and
  some blocks have 2 x 2 coefficients, so that small pictures meet the limits; 66 is
  more than one block's 63 bits, as 1000 is. These are three constants in the code,
  compared with and nothing else.

Fairness. `WF_vars(Thread)` in `PictureSender`, `CommandReceiver` and the alarm
modules: the kernel schedules the thread, naps end, drivers, `gprs()` and `send()`
return. A `send()` that waits on a client
that neither reads nor leaves for ever would not; the connection is then neither
lost nor served, and no property speaks of it. Clients, the operator, the sensor
and the room owe nothing. `Program` has fairness for `main`, for the
console thread's exit and for the opening of the devices, and assumes that the alarm thread closes when it is told to,
which the runs `alarm` and `alarm_copy` check as `PanelLiveness`. `Camera` has
`WF_vars(Work)` for the thread inside a call, `WF_vars(Driver)` because the camera
streams from `VIDIOC_STREAMON` on, and `SF_vars(FinishCompress)` because a picture has
finitely many MCUs: the model leaves open when the last one comes. `Transforms` and
`EntropyCoding` are sequential and only make safety claims.

Every property of a passing run has a mutant in `PROJECT.json` that breaks it.

### What the code does that its documents do not say

Three disagreements are runs of their own: `alarm_hot_at_boot`, `gprs_interleaved`
and `transforms_twelve`. The last is a slip in libjpeg 8d: `jfdctint.c:2770` (and
1472, and for 14 points 1874 and 2644) adds a term before it is scaled by
2^CONST_BITS, where the column pass multiplies it. The program is not touched by it,
since it uses 8 x 8 and 16 x 16 only.

Others the models show and no run is kept for:

* a client that leaves during a pause is not noticed before the pause ends, though
  the comment of `tcpserver.c:218` says that the server goes on accepting connections; hence `FeedLiveness` is
  conditional on pictures being allowed;
* a build that reads `cFlag` once never resumes after a pause (`tcpserver.c:206`);
* a command that comes after a second of silence is thrown away, though by the comment
  of `tcpserver.c:3` the Android client controls the LED and the buzzer; `IgnoredOnlyAfterSilence` says how many;
* key q prints "Program exit......" (`main.c:103`), and the process stays, because
  `main` waits for the picture thread, which never returns;
* `close_video` is never called, and nothing bounds a picture to `dest_jpeg`;
* `gprs.c:29` clears `IXON`, `IXOFF` and `IXANY`, which are input-mode bits, in
  `c_cflag`. With Linux's layout these are `HUPCL`, a bit of the speed, which the speed
  calls set again, and `CLOCAL`, which line 27 has just set. `IGNPAR` is likewise put
  into `c_cflag`.

## 4. What is proved

With no bound on the constants:

* `SenderInvariant`, `PauseTakesEffect`, `SenderImplementsFeed`: for every packet
  size, set of frame lengths, numbering and backlog, assuming the constants'
  `SenderAssumption` and `~Interrupts`. `FeedSafety` is not inductive, since a step of
  the feed is only right if the bytes taken follow those taken before; `SenderInv`
  adds that `sended + wait = length` (`FrameAccounting`), which frame the
  connection is in (`FramePosition`), that a live connection has taken exactly
  `sended` bytes of it (`StreamPosition`), and that `flag_peer_shutdown` means a
  broken connection (`ConnectionHeld`). The pause needs that a frame decided on
  before the pause is the only one pending (`PausePosition`).
* `ReceiverInvariant`, `CommandsObeyedOnce`, `SilencePaysForIgnored`: for every length
  of the buffer and any number of clients and bytes (`ReceiverAssumption`).
  `ObeyedOnceInOrder` needs that what waits in the kernel comes after all that has been
  handled (`InOrder`), and that the byte in `buff` lies between the two exactly when the
  last `recv()` brought it (`FreshInOrder`): a stale byte is one of those handled, and the
  `n > 0` keeps it from being acted on. The count of ignored commands needs that a round
  which will not obey has its silence already counted (`SilenceAhead`).
* `DestinationAccounts`, `DestinationIsSink`: for every buffer size and every picture
  that fits (`DestinationAssumption`). Every byte put is in `dest_jpeg` or in the buffer
  at its place, whichever of the two sets of pointers is the live one.
* `CameraInvariant`, `CameraIsSource`: for every number of buffers
  (`CameraAssumption`). The line of pictures of `FrameSource` is the refinement mapping:
  the picture the thread works on, followed by those in the filled buffers. It needs that
  every buffer is in one place (`BuffersGoRound`) and as many are as the driver granted
  (`BuffersConserved`), that no buffer the thread looks at is
  being written (`PicturesWhole`), and that the newest picture is the last of the line
  (`NewestLast`).
* `AlarmInvariant`, `DevicesAgree`, `AlarmImplementsPanel`: with or without failing
  reads. `ArmedTogether` is not inductive: at the buzzer's turn one must know that
  a cool reading has just left the LED armed, which `ArmedByCoolRound` says;
  `DarkAfterHotRound` needs `UnarmedIsDark`.
* `CopyInvariant`, `CopyImplementsPanel`: the same for the other definition.
* `ProgramInvariant`, `NothingCutOff`: `main` returns only when no
  thread runs, whichever creation failed, by induction over the creations and the joins
  (`CreatedInOrder`, `JoinedAreOver`); and the console and the alarm thread end only
  after `flag_alarm` was set, which a console thread has always done that obeys no key
  any more (`LivesAgree`).
* `GprsInvariant`, `NeverTwice`, `ModemBackToCommands`, `AloneIsSent`,
  `LostNotUnseen`: for any finite set of callers and any number of calls
  (`GprsAssumption`). `Counted` accounts for each call; `Dialogue` says that the modem
  waits for a text only while a caller is about to write one; `Paid` that texts that are
  lost, or will be because their caller is already past the command, are at most one for
  every other caller per garbled message; `Alone` that without overlap none are. The
  first holds with failures; the others as long as nothing has failed.

* `EncodableAlways`: for every set of sizes, every set of quantizers and every block of
  samples (`SizesAssumption`, `TablesAssumption`, `BlocksAssumption`). A kernel is linear
  and its outputs but the first have factors that cancel, so that with inputs between -a
  and b its output lies between multiples of a and of b that the kernel's factors decide
  (`KernelSpread`, one lemma or case per kernel and pass). The rounding shifts are monotonic
  (`DescaleBetween`), a column of the second pass lies in the box the first pass leaves
  (`PassSpread`, `ForwardPasses`), and the workspace of each of the 32 functions is
  thereby at most 8187 and at least -8195 (`SizesFit`), which the quantizer turns into
  1023 and -1024. Compressing again needs that a picture shown is one of samples again,
  whatever the coefficients were (`InverseIsSamples`); `TransformsInv` says both.
* `ForwardIsDctAlways`: for every block of samples, for the 28 functions whose first pass
  is not of 12 or 14 points. Each kernel's output is the component of its points to within
  `RowErr` or `ColErr` times the largest point (`Near1` to `Near16`), which is how far its
  rounded factors are from those of the DCT; a shift adds half a unit (`DescaleNear`).
  Components are linear (`ComponentLinear`), so that the first pass's error goes through
  the columns as its output does (`WithinChain`), and for each function the sum of all
  errors stays below nine units of the workspace (`SizesTight`; the worst is 15 x 15 with
  8.24), where eight units are one of a coefficient. The first passes of 12 and of 14 points
  have a `RowErr` of 65528 and 16386 instead of at most 33: this is the slip that
  `transforms_twelve` shows, and why the theorem leaves these four out. `WorkspaceInv`
  says that the workspace is what the transform of the block has left there.

* `CompressorInvariant`, `CorrectionBitsAlwaysFit`: for every sequence of jobs, so for
  every picture, script, coder and restart interval, and every size of the limits
  (`JobsAssumption`, `HuffEncoderAssumption`, `MaxCodeLengthAssumption`). `PassInv` ties
  `pass_number` to the scan and the kind of the pass, also where the pass that makes
  tables is skipped for a DC refinement, which is why `is_last_pass` comes with the last
  scan; `FileInv` says that the scans of the script are written in order, each once, with
  their own parameters. `CorrectionBitsFit` is not inductive: the test in
  `encode_mcu_AC_refine` comes after the bits were added, so that `CoderInv` has to
  say that room for 63 of them is left whenever an MCU is done, whatever routine coded it;
  that `EOBRUN` is short of the value that writes it out; and that no bits wait without a
  run, since the buffer is emptied with the run and not otherwise. Within a block, a
  refinement is a walk along the band of which each step adds one bit at most or empties
  the buffer (`RefineStep`, `RefineBandOk`).

  The walk, and the reduced script, are recursive functions. The library's induction
  theorems cannot be used on them (they have an operator as a parameter), so
  `UpTheInterval` states induction over an interval for a *set*, proved from the
  pigeonhole principle; applied to the set of lengths for which the function exists and
  keeps its invariant, it does the induction of each such definition.

* `CodingInvariant`: the same for the composition with the damage and the decompressor.
  `PlaceInv` says that nothing is read before the file is complete and that its scans are
  read in order to the last one. `ProgressionInv` says that the decompressor takes and
  expects every scan of a script that `validate_script` has accepted: its `coef_bits` and
  the `last_bitpos` of the validation are kept by different code and must agree, also
  after `reduce_script` has dropped the scans beyond a smaller block. The proof uses that
  what is left is an image of the script in the same order, of which each coefficient has
  the same history. `FreshInv` says that until a scan's first MCU is complete the decoder
  is as `start_pass` left it, however often a call was given up: `decode_next_mcu` works
  on a copy.
* `AcceptedScriptsDecode`: from these, no accepted script ends the decompressor with an
  error, and no scan of one gives the warning of a bogus progression.
* `RestartsFound`: restart numbers are three bits, and `jpeg_resync_to_restart` decides
  from the difference of two of them whether to use a marker, to skip to the next one, or
  to leave it for later. `Paced` data has restart markers of which some are missing and
  some come twice, two in a row at most. With such data, after any number of restarts,
  a segment is at its own marker or has no data, and its own marker is then still ahead or
  has not arrived; the number expected is that of the segment, modulo 8. The argument is
  that markers within two of the one foretold are told apart modulo 8 (`NearMarkers`),
  so that the search ends at the marker foretold or before one that is later
  (`ResyncFinds`), which leaves the place no more than two out of step (`SegmentFound`).
  That the decoding of a segment leaves `mark` and `next` alone is a hypothesis about the
  readers (`IsReader`).
* `DamagedScanIsPaced`: the stretches that `DamageData` can lose or repeat leave the first
  scan `Paced`, provided its markers were numbered in order (`RestartsInOrder`, which the
  run checks of the coders' output as a part of `CodedWithoutError`). Losing a stretch drops
  at most two numbers, repeating one goes back by at most two; where the markers are, their
  order and their numbers follow the splice (`LostIsPaced`, `RepeatedIsPaced`).
* `SymbolsDecode`: for every Huffman table (`HuffTable`) and every symbol that has a code in
  it, the table the decoder derives (`jpeg_make_d_derived_tbl`) reads the code the encoder
  derives (`jpeg_make_c_derived_tbl`) back as that symbol and leaves the place right after
  it, provided the code's bits are all there, before the next marker and before the source
  stops (`DataAt`). Codes of one length
  are consecutive numbers; the first n bits of a longer code are beyond every code of n bits,
  so that the comparison with `maxcode` stops at the right length, and `valoffset` turns the
  number into the place in the list of symbols.
* `DcDecodes` and `AcDecodes`: for every table, what the encoder writes for a DC difference
  of up to eleven bits (`DcDiff`), or for an AC coefficient of up to ten bits after fewer
  than sixteen zeros (`AcValue`), makes the decoder add just that difference (`DecodeDc`) or
  store just that value behind as many zeros (`NextAc`), and leaves it right after those
  bits, under the same provision. The symbol is read by `SymbolsDecode`; it tells the size
  of the value, and `HUFF_EXTEND` undoes the bits that follow because `nbits` gives exactly
  the size of the magnitude. What separates this from `PrecisionReached` is the sequence of
  coefficients in a block, an induction over data, and the longer runs of zeros.

Each proof has one step per action. The proofs about the transforms compute with the
library's factors, and no product or quotient of a negative number is left to the prover's
own simplification, which rounds towards zero where `\div` rounds down.

Only model-checked: all liveness properties, since the prover has no support for fairness
and ENABLED; `RecodingKeepsPicture`, which holds for the tables of the run and not for
every table; and `PrecisionReached`, `CodedWithoutError` and `DamageContained`. These
relate both coders bit by bit through a whole picture, and they do not hold for every job:
a coefficient beyond `MAX_COEF_BITS` is an error, and so is a table that lacks a symbol.
`CodingInvariant`, `AcceptedScriptsDecode`, `RestartsFound` and `DamagedScanIsPaced` are
the parts of them that hold for every job. What is missing between these and
`DamageContained` is said where they are described: that decoding a segment leaves the
marker ahead and the number expected alone, and that each coder's own output is
`RestartsInOrder`. Both are inductions through the coders' walks (`InOrder`), whose
operator parameters would need an instance of the argument for every walk.

## 5. What is not modelled, and why

* the conversion of YUYV pixels to RGB (`camera.c:129-151`): a formula per pixel with
  no state;
* which termios bits `serial_init` sets (`gprs.c:27-90`): their meaning is the kernel's,
  see above; and a `write()` to the modem that is cut short;
* the conversion of a reading to degrees (`alarm.c:38-41`) beyond below or not below
  `TEMP_VAL`;
* `func_temp` and `temp_send` (`alarm.c:106-183`): commented out;
* the V4L2 format negotiation, the `mmap` of the buffers and `close_video`: done once
  before the first picture, or never;
* printing, socket options, and what a terminal does to keys;
* of libjpeg: the fast and floating-point transforms (not chosen by this program);
  colour conversion, sampling and the colour quantizers (arithmetic on rows of samples);
  the main, preprocessing and postprocessing controllers, block smoothing and
  buffered-image mode; the syntax of the markers other than RST; the memory manager,
  error and message handling; and the tools (`cjpeg`, `jpegtran` and others), which are
  not linked.

What could be added next: the rest of the marker reader with a source that stops inside
a marker; the coefficient controller over several rows, with its full-image buffer; and a
composition of the command thread, the console and the alarm thread from a byte on the
network to the device.
