# ESPMusicBox in TLA+

The music box is an ESP32-S3 that plays the birthday song when the light
changes, or an Internet radio. It is configured over USB CDC, over a UART and
over HTTP, by a PC tool, an Android application or a browser. This directory
holds TLA+ models of the program (`src/`), the TLC configurations that check
them on small instances, and proofs of what holds for every instance.

## The system

The firmware (`src/main`) starts these FreeRTOS tasks on two cores: the audio
task, the sensor task, the Wi-Fi task, the storage task, the serial task (one
for USB and UART), the UART receive task, and the tasks of ESP-IDF, of which
the HTTP server and the event loop run code of this repository.

| Part | State | Operations | Met by | What makes it correct |
|---|---|---|---|---|
| Playback service, `audio/audio_service.c` | command queue of 3, stop bit, `s_pending`, `s_active` | play, stop, is_active; the loop of `audio_task` | serial, HTTP, sensor, Wi-Fi, boot | stops take effect, the busy flags tell the truth, the status fits what plays |
| Runtime state, `app_state.c` | playback, source, error, lux, Wi-Fi, one mutex | setters, one copy for readers | all tasks | see the tasks that write it |
| I2S player, `audio/i2s_player.c` | source rate, two frame counters, output on or off | configure, write, silence, diagnostics | audio task, serial | output off between commands, every frame converted once, at the rate of its file |
| Decoders, `audio/mp3_decoder.c`, `wav_decoder.c` | buffer, position | decode loop, read | audio task | progress on every input |
| Configuration store, `config/nvs_config.c` | copy in RAM under a mutex, NVS keys, mirror file | load, update, mirror | serial, HTTP, boot; read by all | acknowledged updates last, the copies agree |
| File store, `filesystem/littlefs.c` | music files, one upload session, temporary file | begin, write, end, delete, list | serial, HTTP; files opened by the audio task | names hold whole files, answers are true |
| Light sensor, `sensor/bh1750.c` | sensor ready, latch | loop of `sensor_task` | reads configuration and player, plays | one change of light, one song |
| Wi-Fi manager, `wifi/wifi_manager.c` | connected bit, driver started, last configuration | event handler, loop of `wifi_task` | event loop, player | reconnects, shows what is true, follows the source |
| Serial transport and commands, `usb_serial/usb_serial.c` | stream buffer, line buffers, queue of lines, rate of the UART, firmware session | bytes in, request, answer | both clients | a damaged line damages no other, the UART is served, both ends use one rate |
| Firmware update, same file | session, two partitions, boot choice | `ota.begin`, `chunk`, `end`, `abort` | both clients | always bootable, what is reported is what runs |
| HTTP API, `web_api/web_api.c` | none of its own; one handler at a time | handlers, the receive loop of an upload | browsers, PC tool | a handler ends; else as the parts it calls |
| PC tool and Android application | connection, numbers of requests, reply at hand; a configuration read and one in the form | commands, update of the firmware, reading and saving the configuration | serial transport | an answer is taken for its own request, what is shown as saved is saved |
| Boot and test tone, `app_main.c`, `audio/sine_test.c` | two NVS keys of a test | stages of the start; request and restart | serial | the device always comes to run, the tone is the one asked for and given once |

What is hard here: five tasks use the player through flags and calls that are
not one step together; the serial task and the HTTP server share one upload
session and one configuration whose copies are written one after another;
flash writes fail and power goes at any step; lines are lost, answers are late
and clients try again; and the loops of the Wi-Fi and sensor tasks are the only
ones to repair what went wrong. `hazards` in `PROJECT.json` lists these places
line by line, each with the property that guards it.

## Modules

| Module | Models | Composition |
|---|---|---|
| `AudioService` | playback service, the status it publishes, the output between commands | the callers are processes of the module |
| `ConfigStore` | configuration store with NVS, mirror, failing writes and resets | updaters and boot are processes |
| `AudioFiles` | abstract: a name holds nothing or a whole file | none |
| `UploadSession` | file store, the serial and the HTTP client, the receive loop of the server, the player that opens files | implements `AudioFiles` (`INSTANCE ... WITH`) |
| `SensorTrigger` | sensor task, its configuration and its view of the player | the player reduced to busy or idle |
| `OtaSession` | the firmware session and the partitions on the device | none |
| `FirmwareUpdate` | both clients, lines and answers in between | extends `OtaSession` |
| `WifiManager` | Wi-Fi task, event handler, driver, its view of the player | the player reduced to queue, command taken, source and stop bit |
| `Resampler` | I2S player: conversion of the rate, hand-over, silence | none |
| `Mp3Decoder` | refill, search and decode loop on a file | none |
| `WavDecoder` | walk over the chunks, reads at every width | none |
| `LocalPlayback` | `play_local_once` and the passes over it | extends the three above |
| `SerialTransport` | bytes, lines, buffers and queues of both serial channels, the writing of answers | the hosts and the USB stack are processes |
| `UartRate` | `uart.baud` and the application that asks for it | both ends in one module |
| `BootSequence` | stages of the start, the request of a test tone and the tone | none |
| `ConfigApp` | configuration page of the Android application | extends `ConfigStore`, of whose updaters it drives one |
| `MC...` | the instances TLC checks | extend the modules above |
| `...Proofs` | theorems | extend the modules above and `TLAPS`; `BootSequenceProofs` extends `BootSequence` and `SensorTrigger` |

**AudioService.** One action per FreeRTOS call. A caller goes through
`RaiseStop`, `ResetQueue`, `MarkPending`, `Send` or `SendTimeout`
(`queue_command`), or `RaiseStop`, `ResetQueue`, `UnmarkStopped`
(`audio_service_stop`); the audio task goes through receive, flags, the clearing
of the stop bit, passes over a file or a radio stream buffer by buffer, silence,
report, and the flags again. Files and streams answer nondeterministically: they
open or not, have a rate, end, fail. Sensor and Wi-Fi tasks (`Automatic`) call
only after `IsActive` was false; the call itself is later.

**ConfigStore.** Three fields stand for the twelve: the trigger and dead zone,
which bound each other, and one that is free. `Accept` is validation and the new
copy in RAM; `WriteKey` one `nvs_set_*`; `Persisted` and `PersistFails` release the
mutex; `ReadConfig` and `WriteMirror` follow outside it. `Crash` may come at any
step; `Load` is boot with its repair of values out of range and its mirror.
`raced` and `loose` are history: whether updates overlapped; whether a request has
lowered the trigger without naming the dead zone, or a reset cut an update in two,
since the dead zone was last named.

**UploadSession.** Every call holds the mutex, so it is one action, but the end
of a session: between `unlink` and `rename` the player may look and power may
fail. An open file is neither removed nor replaced, as LittleFS has it. The
serial client may vanish in the middle and come back with another upload. The
HTTP server runs one handler at a time; its client (`peer`) sends, falls silent
or closes the connection, and only the last makes the receive loop give up.

**SensorTrigger.** The whole loop of `sensor_task`: connect, read, publish, then
decide with a configuration read later than the sample, ask whether the player
is busy, start the song one step later. `songs` counts those started since the
light was last back, or the mode another one.

**OtaSession and FirmwareUpdate.** A command is one step, since one task runs
them all. Hosts follow the code of the two clients, with their differences: the
PC tool aborts before it begins and sends chunks in windows, the Android
application sends them one by one, does not abort first, and throws away what it
has read behind a line. Lines may be dropped, hosts may time out while the
answer is on its way, connections may be opened again and count from 1.

**WifiManager.** `event_handler` writes the bit and then the state shown;
`apply_credentials` writes the same two between leaving the old network and
starting with the new; `wifi_task` asks its three questions in three steps. Of
the player there is what matters here: the queue, the command taken and not yet
begun (`Begin` clears the stop bit), what plays, and the stop bit.

**Resampler, Mp3Decoder, WavDecoder, LocalPlayback.** The audio task alone, seen
from within a pass over a file. `Resampler` keeps the two counters of frames and
the fill of the conversion buffer; a call of `i2s_player_write` is a sequence of
steps between `Write` and `Return`, any of which may be the last when the
pipeline refuses. `Mp3Decoder` describes the buffer by two positions in the file
and the place of the read pointer, since it always holds a part of the file
without a gap; letters stand for stretches of bytes, so that sync words, headers
and frames may be cut anywhere. `WavDecoder` has the file as chunks with sizes
and a length at which it is cut off. A file comes with the positions of its
frames (`heads`) or chunks (`at`), which are what its bytes say (`Parsed`,
`LaidOut`); the decoders look at the bytes, the properties at the positions. The
chunks of a WAV file stand in the order in which the walk comes to them. Their sizes
are numbers of 32 bits, which `fseek` takes for signed ones (`AsOffset`): half of them
lead back, to a header that was passed, to another place of the file, or before its
beginning (`Nowhere`), where `fseek` fails. A read of a WAV file may fail at any time
and give a part of what is there or nothing (`ReadFails`, history `missed`); one of
an MP3 file may fail as a whole. `LocalPlayback` gives frames from the readers to the
player, pass after pass, and silences it after the last.

**SerialTransport.** A byte is a pair of its line and its place in it, so that a
model knows what became of every line without knowing what it says. USB bytes go
through `receive_callback` and the stream to `consume_bytes`; UART bytes are cut
into lines by `uart_rx_task` and wait in the queue. `config_task` alone answers:
it writes into the FIFO of the USB channel what there is room for, again and
again, and the FIFO moves only while an application on the host has the port
open. A client may go away in the middle of a line, and the next one starts in
the same line buffer.

**UartRate.** A line is understood by a side that reads at the rate it was sent
at, and is noise to the other. The device sets its rate before it answers; the
application sets its own after it has read the answer.

**BootSequence.** `app_main` stage by stage: a stage that is checked restarts the
device when it fails, an optional one (mirror, sensor, song) is passed over. The
request for a test tone is two keys, each on the flash as soon as it is written,
cleared by two more writes whose result nobody looks at; nor does anybody look at
that of the read of the second key, the width, which is then 16 bits. `owed`, `stray`,
`taken` and `unread` are history: what was acknowledged and not yet given, whether
the flash holds a request nobody was told of, what this start has taken, and whether
it could not read the width.

**ConfigApp.** `known` is `vm.config`, `editing` the form, `saving` the form as it
was when it was saved. `Encoded` is what the serializer makes of a configuration:
fields with the default values of the application's `AppConfig` are left out.
The device is that of `ConfigStore`, step by step.

## Checks

| Run | Distinct states | Question and answer |
|---|---|---|
| `audio` | 135 k | Do flags, status, rate and output fit what the service does, and does a stop that finds a song playing end it? Yes, for two callers of which one is automatic, one queue slot and all kinds of commands. |
| `audio_stop_lost` | - | Does a stop or a newer file always end a loop? No, finding 1. |
| `config_updates` | 393 k | Three updates, two updaters, requests that name one lux value, both or none, failing writes, two resets: do acknowledged updates last, is nothing older ever loaded, does the mirror follow, is every update answered? Yes. Does the dead zone stay below the trigger? Only until a request names the trigger alone, finding 4. |
| `upload_safety` | 509 k | Two clients, three uploads, failing flash, one reset, a player: are the answers true, are there stray temporary files, does the store implement `AudioFiles`, does the HTTP handler end? They are, there are none, it does, and it does unless its client falls silent. |
| `sensor_songs` | 5 k | One song for one change of light, and one there is, with light that does not change as well (finding 5); the sensor and the latch recover. Yes. |
| `firmware_updates` | 1.0 M | Both clients at once, each tries twice, one mishap: is the device bootable, are answers taken for the right request, does an undisturbed retry succeed, is "updated" true? Yes, but for the application's retry and the mistaken pong named below. |
| `wifi_reconnect` | 442 k | Does the network come back, is it shown as it is, does an old station end and the new one come back? Yes, but for a failed start of the driver and the lost stop. |
| `local_playback` | 766 k | 1082 MP3 and WAV files, whole and damaged, with chunks of all sizes and reads that fail: does the output keep time, do the buffers hold what is in them? Yes. Does every pass end? Unless the walk over the chunks goes round, finding 6. Is the file played whole? Each frame that is read or decoded is played once; which frames are not, and where a read goes before the buffer, is said in findings 7 and 8. |
| `serial_lines` | 295 k | Every buffer at its limit, clients that go away, a host that does not read: is the damage confined to the lines it was done to, and is the UART served again once the host reads? Yes. |
| `serial_rate` | - | Do application and device use one rate after a change? No, finding 2. |
| `boot` | 12 k | Two requests of a tone, three faults anywhere: is the tone the acknowledged one and given once, is it given, does the device always come to run? Yes, but for the width if its key cannot be read. |
| `config_saved` | - | Does the device hold what the application says is saved? No, finding 3. |

`PROJECT.json` names for each property a plausible error in the code that breaks
it (`mutants`); the definitions of these errors stand in the modules before the
definition they would replace.

### Bounds

* Calls, updates, resets, faults, attempts are bounded by `Max...` constants in
  the guards of the actions of users and faults, never of the device. Two
  callers with two or three calls are enough for one to be overtaken by the
  other between any two of its steps.
* `CounterMod` is the width of the pass counter (2^16), 3 in the run so that it
  wraps. `MaxChunks` is 2: a first buffer, which enables the output, and a later
  one. `QueueLength` of the player is 1 instead of 3, so that a caller really
  finds the queue full.
* Files have two pieces or chunks at most: one complete, one incomplete, one too
  many. The window of the PC tool is 2 instead of 16.
* Lux values, triggers and dead zones are small numbers on both sides of every
  threshold. Configurations are those of `MCSensorTrigger` and `MCWifiManager`,
  among them a threshold that is left with the light unchanged.
* Both hosts of `FirmwareUpdate` try twice, with one mishap (a lost line, a late
  answer, a failing write): one try that meets it and one after it, beside the
  other host at any of its steps. Each host alone was also checked with three
  tries and four mishaps.
* MP3 files are all sequences of up to four pieces (good frames, frames that need
  earlier ones, frames not to be played, cut off frames, noise) and two frames with
  noise of every length up to 18 before or behind them, against a buffer of twelve
  letters with a threshold of nine and frames of four: frames lie at every place of
  the buffer, across its end and the threshold. WAV files have up to five chunks, all
  widths, odd sizes, long and short formats, blocks of 12 bytes, and are cut in each
  chunk. Sizes are below `SizeLimit`, which is 128 in place of 2^32, so those of 64
  and more lead back; among the files are some whose walk goes round over one chunk
  and over several, and some that it leaves for an earlier part with samples. Source
  rates are 1, 4, 6, 9, 12 against an output rate of 6, the conversion buffer has
  four frames. One behaviour plays one file, twice.
* One network is left and joined again; the second station and birthday mode
  give the three kinds of change the task tells apart. The event queue holds two
  events; the driver waits when it is full, as `esp_event_post` does.
* Lines have up to four bytes against a line buffer of two, a stream of three, a
  queue of one and a FIFO of one: lines that fit, that fit exactly and that are
  too long stand before and behind each other on both channels, an answer never
  fits into the FIFO at once.
* A request of a tone may be cut at each of its writes and at each of those that
  clear it, with a further fault at the start after that (`MaxFaults` is 3).
* The user of the application saves twice: once away from its default values,
  once back to them.

Deadlock is checked in every run. Where a system may come to rest because the
bounds are used up, the module has a stuttering action (`Terminated`, `Rest`,
`Idle`, `Quiet`) whose guard says that nobody is in the middle of anything, so a
task that waits for ever is still a deadlock.

### Fairness

Weak fairness on each task of the device, on the driver and on songs that end:
FreeRTOS runs a task that is ready, and no task of higher priority spins. None
on users, light, networks, failures or resets. No strong fairness is used.

* The firmware run needs none: that nobody waits for ever is its deadlock check.
* `LocalPlayback` is one thread: its steps follow each other as long as one is
  possible, and nothing forces a command to come, a stop or a failure.
* `UploadSession`: the HTTP handler goes on, and whoever holds the mutex for its
  rename; nobody has to send.
* `SerialTransport`: the two tasks run, and the USB host polls the endpoint while
  an application has the port open (`HostReads`); `UartServed` supposes that it
  stays open from some time on, since the code waits for it without a limit.
* `BootSequence`: the one thread of the start; no fault has to happen or to stop
  happening other than by its bound.

## Findings

1. **A stop can be lost** (`audio_stop_lost`, `audio_service.c:234`). The audio
   task clears the stop bit after it has taken a command; a stop, or the newer
   file that raised it, that came in between is forgotten. A loop goes on for
   ever and the newer file waits behind it. In the Wi-Fi task the same window
   keeps the old station playing after a change of source
   (`erased` in `WifiManager`; without it `OldStationEnds` fails).
2. **A change of the UART rate never succeeds** (`serial_rate`,
   `SerialClient.kt:267`). The device answers at the new rate; the application
   reads at the old one, times out, and keeps it for this and the next
   connection. Device and application do not understand each other until the
   device is restarted.
3. **The application cannot set a value back to its default** (`config_saved`,
   `AppViewModel.kt:226`). Its serializer leaves out fields that have the default
   values of `AppConfig`, and the device keeps what a request does not name. A
   device in radio mode stays there, one with another trigger or volume, or
   one that plays on boot, keeps it, and the application says it is saved; if
   what it then reads is what it had read before, the form goes on showing the
   user's values. The sensor may suffer: a form with a trigger below 50 and
   a dead zone of 50 is sent without the zone, the device does not cut the zone
   down, and no light is then dark enough to open the latch again.

The next ones are met by passing runs: the property names the exception, exactly, and
files or requests that meet it are among those of the run.

4. **The dead zone is cut down only if it is named** (`config_updates`,
   `DeadZoneBelowTrigger`, `nvs_config.c:211`), other than the simulator says of the
   firmware (`simulator.py:137`). An acknowledged trigger alone may leave a zone wider
   than the trigger, with which the latch does not open again; the next boot replaces
   such a zone by 50 (`Repaired`). So may a reset in the middle of an update.
5. **The sensor has no baseline** (`sensor_songs`, `LastingLightIsHeard`,
   `bh1750.c:105`). README and protocol describe a baseline taken at the first reading
   and a distance from it; the firmware compares each reading with the trigger, the
   first one too.
6. **A WAV file may occupy the player for ever** (`local_playback`, `PassEnds`,
   `wav_decoder.c:65`). The size of a chunk, 32 bits without a sign, is an offset with
   a sign for `fseek`. A size of 2^32 - 8 leads back to the header of its own chunk,
   others to earlier ones, and the walk, which looks for no stop, goes round
   (`GoesRound`). Nothing but a failing read ends it.
7. **The MP3 loop reads to a place before its buffer** (`local_playback`,
   `BufferFits`, `mp3_decoder.c:50`). If a header is cut off by the end of the buffer,
   `MP3Decode` consumes all of it and `bytes_left` falls below zero. With noise of more
   than the threshold before a frame or behind the last one (not `Clean`, not
   `CleanEnd`) the file may have more to read then, and it goes to `input + bytes_left`.
   Without such noise nothing is read there, and for every file the end of the buffer
   is not overrun.
8. **Whole MP3 frames may be lost** (`local_playback`, `PlayedWhole`,
   `mp3_decoder.c:75`). A frame behind such noise may lie across the end of the buffer;
   `MP3Decode` has consumed its header when it says that data is missing, so it is not
   tried again with more input. And once the end of the file is known, a frame that
   needs earlier ones ends the loop, and those behind it are not played (not
   `MissesEarly`).

Seen in the models and stated in their comments or histories, without a line of the
documents that says otherwise:

* Playback: a read of a WAV file that fails ends the pass as a success, with the rest
  of the song unplayed (`wav_decoder.c:82`, `:99`), or has the file refused as none
  (`wav_decoder.c:24`-`:40`, history `missed`); one of an MP3 file is an error.
* Configuration: of two updates at once the older mirror may be written last
  (`nvs_config.c:256`, history `raced`).
* Files: a piece of one client completes the file of another, which is answered
  "ok" (`littlefs.c:152`, history `disturbed`).
* Wi-Fi: a failed `esp_wifi_start` is not tried again until the credentials
  change (`wifi_manager.c:119`, history `broken`). A user's stop in radio mode
  holds for one round of the Wi-Fi task, two seconds at most.
* Transport: the newline of an answer is dropped when the FIFO is full
  (`usb_serial.c:82`), and two answers become one line; what a client has left in
  a line buffer is glued to the first line of the next one (`usb_serial.c:447`).
  Outside the models, by arithmetic: a window of 16 lines of 3.9 KB each
  (`SerialDeviceClient.cs:11`) is more than the 16384 bytes of the stream
  (`usb_serial.c`), so it relies on the device keeping pace; answers of more than
  4095 characters are not read by the application (`SerialClient.kt:130`).
* Firmware: the Android application does not abort when `ota.begin` times out,
  and its later tries are refused (`SerialClient.kt:244`, excepted in
  `CalmUpdateSucceeds`). A client that opens the port anew counts from 1 again,
  so the late pong of the client before it may be taken for its own, and then
  each answer for that of the request after it (history `late`); the application
  throws away what it has read behind a line, and with an old answer the one it
  waits for (`disturbed`).
* Test tone: a request whose second key fails is answered with an error and
  given at the next start all the same (`sine_test.c:32`, history `stray`). If the key
  of the width cannot be read, a tone of 32 bits is given with 16 (`sine_test.c:162`,
  history `unread`).

## Proofs

`tlapm` proves, for all values of the constants:

* **`AudioServiceProofs`**: `TypeCorrect` (the type invariant, one lemma for each
  named part of it, one step for each action that touches the part), and from
  the inductive `IInv` the safety invariants of the run and one more
  (`QuietBetweenCommands`): `PhantomFree`, `StatusCorrect`, `StopLatency`,
  `RateIsFresh`, `RadioPersists`. None of them is inductive. `IInv` adds what is
  true at each control point of the audio task: in which of them the service is
  active, what the status is, whether the output is enabled and since when, how
  many buffers may follow a stop; for the callers, that whoever has marked a
  command as pending is still to send it or to take the mark back.
* **`ConfigStoreProofs`**: `TypeCorrect`, `NoKeyIsOlder`, `MirrorIsCommitted` and
  `MirrorIsCurrent` for all requests, from `Inv1`: who persists holds the mutex
  (`Mutex`), nobody updates before the boot is done (`BootFirst`), the keys
  written so far are those of the candidate, and the candidate counts as tried
  (`Writing`), no key is older than what was acknowledged (`NoneOlder`), the
  tasks see committed configurations only (`Visible`), and without a race who is
  at the mirror is alone there with the present configuration (`Mirroring`).
  `AcknowledgedIsKept` and `ZoneStaysBelow` hold for all requests, too. `Kept` and
  `RamKept` say that with nothing tried since, the flash is what was acknowledged, and
  RAM is that or what the range checks of the boot have made of it (`Repaired`); `Zone`,
  that a zone named last is below the trigger in RAM, in the candidate and on the flash,
  unless it is `loose`.
* **`UploadSessionProofs`**: `TypeCorrect`, `AnswersAreTrue`, `NoTempIsLost`, and
  `FilesAreWhole`, the refinement: every behaviour of the store is one of
  `AudioFiles`. `AnswersHold` speaks of the moments without a rename on its way;
  the invariant adds what a session holds while its client is left alone
  (`Undisturbed`), that a rename closes and completes its session and disturbs
  all others (`Renaming`), and what the name renamed to may hold meanwhile
  (`Answered`, `TempsKnown`).
* **`BootSequenceProofs`**: `TypeCorrect` and `ToneIsAsAsked`. The keys on flash are
  those of the acknowledged test unless `stray` (`FlashIsOwed`); this has to be
  followed through the two writes of a request (`Written`) and through the reading
  and the clearing of the next start (`Taking`). The module also holds the theorems
  about the task of the stage "sensor", `SensorTypeCorrect` and `OneSong`.
  `songs <= 1` needs `LatchHolds`: a song started since the light was back leaves the
  latch closed, and while a song is being started none has been counted.
* **`SerialTransportProofs`**: `TypeCorrect` and `Confined`, for all lines of both
  hosts and all sizes of the buffers. `DamageConfined` says what has become of a line
  once it has left the buffers, and nothing of a line that is still in them; the
  invariant follows every clean line from the host to the request (`UsbGood`,
  `UartGood`). On the way its bytes follow each other without a gap, also between the
  stream, the batch of `config_task` and the host (`Chained`); a line buffer that has
  a part of it has its beginning and nothing else, and its next byte comes next
  (`Joined`); and once its newline is sent it is a request, or a text of the queue, or
  its newline is still on the way. A step that loses bytes cuts these stretches only
  at lines it hurts, which is why a lost newline hurts two: the next line would
  be joined to what is already in the buffer.
* **`FirmwareUpdateProofs`**: `Bootable`, `TypeCorrect`, `AnswersFit`,
  `UpdateIsMine` and `CalmSucceeds`, for any number of hosts, windows, sizes and
  tries. *Bootable*: whole images in the partition that runs and in the one to boot
  next are kept because the two are the same until an update has ended, and then
  no session is open: all writes go to the other partition (`DeviceInv`).
  *AnswersFit*: `AnswersFitRequest` looks at the answer at the head only; the
  invariant (`WayInv`, one for each host) looks at every request on its way, as a
  line or as part of an answer. Number 1 is that of pings and of nothing else
  (`NumbersInv`), what is on the way belongs to this update or an earlier one
  (`AttemptsInv`), and, once a client has taken its own pong, carries no number that
  is awaited unless it is what is awaited (`FitInv`): the pong was behind all that
  was left (`LastInv`), so nothing is left when it is read. *UpdateIsMine* and
  *CalmSucceeds* are action properties; their invariant (`CalmInv`) says where
  what is awaited is (`CalmWay`: at the end of the way, or in order all along it) and
  what the device has made of what it has answered (`CalmDevice`: chunks up to
  those still on the way).
* **`WifiManagerProofs`**: `TypeCorrect` and `FlagsTruthful`. The bit and the state
  shown lag behind the driver and are written by two tasks, so neither follows it
  at all times. `ReportHolds` does: the last report on its way, in the queue or in
  the handler, says what the driver has, or if there is none the flag itself; and
  `OffWhileApplying`, the task clears the flags only while the driver is off. One
  lemma says what the last event is after one is put in or taken out.
* **`LocalPlaybackProofs`**: `InStep`, `TypeCorrect`, `InBuffer`, `WholePasses`, for
  every file (a sequence of letters or chunks of any length, cut off anywhere),
  every size of buffer, threshold, block and conversion buffer, and all rates.
  *InStep*, the output keeps time: between calls the next output frame lies beyond
  the last input frame, but within an interval it may already have left it;
  `Tight` has the bounds for both, and is kept by `Interpolate` and
  `LeaveInterval` because their guards are each other's negation. `Fresh` says that
  nothing is heard before the first frame, `OpenRate` that rates come from
  supported formats.
  `TypeCorrect` is no more than the types: "from" is at most one letter beyond what was
  read, positions in WAV files are numbers.
  *InBuffer* and the MP3 half of *WholePasses* rest on `DecoderInv`. The read
  pointer is never within a frame that the file holds whole (`Aligned`), so the
  frames decoded are as many as the good ones behind it (`Counted`), and at the end
  none is left (`AllRead`). That no frame is passed over needs `Clean`: from the
  end of one frame the next one ends within the threshold, so the buffer has it
  whole when the decoder looks (`Fits`), and the first sync word that is found is
  its own or lies before it. (That there is a first one, and a first frame not
  passed, is the well-ordering of the numbers, `LeastOf`, which is proved from the
  library's facts on finite sets, since induction is out of reach.)
  The WAV half rests on `ReaderInv` and `WavPace`, and speaks of passes without a
  failing read. While the walk goes on it is at the beginning of a chunk (`OnChunk`):
  for the first time, having met no samples before it (`WalkAt`), or it goes round,
  having passed all the chunks without samples (`AllPassed`). So it ends at what the
  file offers, or the file offers nothing (`Refused`). Where the next header is comes
  from the order of the chunks if `fseek` takes the size for what it is
  (`AfterForward`), and from the file otherwise. From there
  on `Taken` relates the frames given, the position, the bytes said to be left and
  what the present read has converted: either all reads were full (`Exact`), or
  the last whole sample has been read (`Over`), and then reads give nothing. A read
  that is not full therefore ends the file, at all widths; that `BufferSamples` is
  even is what keeps both channels of a frame in one read (`InFrames`).
  `PlayerPace` and `Mp3Pace` say that the player has converted, or has still to
  convert, what it was given since the pass began, also over the frames left from
  the pass before; `Control` where the task is: one decoder at most, which waits
  while the player converts.

The proofs assume what the `ASSUME`s of the modules name: constants are sets and
numbers of the right kind, `Factory` is an image, the names of tasks differ. TLC
evaluates them in the runs. For `FirmwareUpdate` the two clients are different
ones; for `LocalPlayback` files are laid out as they say, a frame fits below the
threshold, blocks hold whole samples of every width and the sample buffer whole
frames, as `MP3_REFILL_THRESHOLD`, `temporary` and `WAV_BUFFER_SAMPLES` do. The type
invariants of `AudioService`, `ConfigStore`,
`UploadSession`, `SensorTrigger`, `BootSequence` and `WifiManager` are proved and
in no run.

Only model-checked: the liveness properties of the runs, which are out of the
prover's reach. Every invariant that a passing run checks is proved.

## Plan

Modelled first was what several tasks share and what cannot be repaired by a
restart: player, configuration, files, sensor, firmware, Wi-Fi; then the path of
a file through the decoders; then the transport, the start and the test tone, and
the configuration page of the application. Every safety property of the runs is
proved. What is left is to say more: that clean lines become requests in the order
they were sent in and once each, which needs a sequence in place of the set `whole`;
and what a client of the playback service may rely on as a specification of its
own, which `AudioService` implements and `SensorTrigger` and `WifiManager` use for
their view of the player.

## Not modelled

* Board pins and pin diagnostics: tables and pure I/O.
* User interfaces of the clients, but for the configuration page of `ConfigApp`.
  Forms keep a copy of the configuration and write all of it, so one client
  undoes what another has saved since; to the device these are requests like
  others.
* Vendored libraries under `components/` (by far the most lines of the
  repository: LittleFS, TinyUSB, nghttp2, the MP3 decoder): other projects' code,
  present as what the firmware sees of it. Build scripts.
* MP3 frames of free bit rate, for which `MP3Decode` looks for the next frame
  (`mp3dec.c:328`), and reads of an MP3 file that give a part of what is there; a
  failing read of a music file is one that gives less than the file has.
* Formatting and parsing of JSON and the bytes of audio: requests and frames are
  values. Queries (`info`, `status`, lists) change nothing and are left out.
* The device simulator (`src/device_simulator`), a stand-in for the device in the
  tests of the clients. Its player loses a stop in the same window as the
  firmware's (`simulator.py:274`), and its check of the dead zone differs
  (`simulator.py:137`).
