# Verification of SailfishConnect

SailfishConnect is KDE Connect for Sailfish OS: a Qt application that runs as a
window or as a daemon, pairs with devices on the local network, and exchanges
packets with them through plugins. The KDE Connect core itself (links, pairing,
device and plugin loading) is a git submodule that is not part of this tree;
what the plugins and the application need of it is modelled from how they use
it and marked external in `PROJECT.json`.

The TLA+ modules here model the parts of this repository whose correctness
depends on the order of events; TLC checks them on small instances, and TLAPS
proves the safety of every modelled component for all values of its parameters.

    tlc -workers 2 -config CopyJob.cfg MCCopyJob.tla     # any run: <cfg>, <module>
    tlapm CopyJob_proofs.tla                             # the proofs

## 1. The system

Nearly everything runs in one Qt event loop, so the interleavings that matter
are those of *events*: what the loop dispatches is atomic with every slot that
is called directly inside it, and between two events anything may happen that
D-Bus, the network, the peer, the user or a `deleteLater()` has posted. Three
things leave this loop: the thread of the notification listener, the thread of
the SFTP worker, and QML's image thread.

| Component | Keeps | Operations | Talks to |
|---|---|---|---|
| **CopyJob** `pluginscommon/copyjob.cpp` | a buffer, the counters `m_size`, `m_writtenBytes`, the flags `m_started`, `m_sourceEof`, `m_finished`, KJob's error and end | `start`, `doStart`, `poll`, `pollAtSourceClose`, `finish`, `doKill`, two ways of deletion | two `QIODevice`s by signals; its owner by KJob's `finished` and `result` |
| **DownloadJob, JobManager, JobsNotificator, SharePlugin** `downloadjob.cpp`, `jobmanager.cpp`, `jobsnotificator.cpp`, `shareplugin.cpp` | destination path and file; a `JobInfo` (state, error, target) and a notification for each job | `receivePacket`, `doStart`, end of a job, `cancel`, deletion with the device | the file system, the job's `finished`/`result`, Nemo notifications |
| **Telephony plugin** `telephonyplugin.cpp`, `ofono.*` | modems, `TelephonyCall` objects, `m_calls`, what was last told for each call | D-Bus signals of oFono, two blocking D-Bus calls | oFono; packets to the device |
| **Mpris remote and album art** `mprisremoteplugin.cpp`, `albumartcache.cpp` | players; the fetching jobs, the disk cache, image responses | `startFetching`, `endFetching`, redirects, errors; player list updates | peer packets, HTTP, CopyJob, QML's image thread |
| **Start and migration** `app/src/sailfishconnect.cpp`, `ui.cpp` | old and new data directories, the D-Bus name, window and daemon mode | `migrateOldInstallation`, `registerService`, `raise`, `showMainWindow`, closing | another instance, systemd, the file system |
| **AppDaemon** `appdaemon.cpp` | a background activity, notifications | device changes | KDE Connect's daemon |
| **SFTP server** `sftpserver.cpp`, `sftpservercommands.cpp` | sessions, channels, handles, tries left | login, channels, file operations | libssh callbacks in a worker thread |
| **SendNotifications** `notificationslistener.cpp` and others | a D-Bus monitor thread, the list of applications | `Notify` calls seen, configuration changes | D-Bus, plugin configuration, packets |
| **Battery report** `batteryreportplugin.cpp` | level, charging state, validity | blocking refresh, signals, change of the owner of MCE's name | MCE over D-Bus, packets |
| **Clipboard** `clipboardplugin.cpp` | content and the time of its last update | local changes, clipboard and connect packets | system clipboard, packets |
| **List models** `app/src/models` | rows for devices, plugins, players; filters | device and plugin signals, filter and sort settings | the daemon's objects, QML |
| **D-Bus objects** `app/src/dbus` | a cached list of plugins, a registered flag | signals, blocking queries | session bus, QML |
| Keyboard layouts, helpers, QML pages, contacts, telepathy, build | little or nothing | reading files, formatting, layout | |

### What is hard, and what makes a component correct

* **CopyJob** is a pump with no loop of its own: it goes on only if some event
  calls `poll()` again. It must not lose a wakeup, must notice its end wherever
  the completing event comes from, must never report success for a part of the
  data, and must report once. The source may stop early or never close, writes
  may be partial, reads may fail, it may be killed from inside its own slots and
  be polled after it failed and before it is deleted.
* **Downloads**: several files of one name arrive at once; the look for a free
  name and the creation of the file are two steps. No file of the user and no
  other download may be overwritten; notifications must follow what happened,
  also when the device disconnects in the middle.
* **Telephony**: the plugin learns of calls twice, from `GetCalls` and from
  signals, while it blocks its own loop; oFono reuses the paths of calls. When
  nothing is left to handle, the device must believe what is the case, must see
  no active call ring again, and no cancellation of a call it never heard of.
  The first two hold only if oFono does not change a call faster than the plugin
  gets to know it, which nothing in the code sees to (section 3, findings).
* **Album art**: requests that are never answered, an answer that races with a
  redirect, partial files that count as cached after a reload.
* **Start**: a crash in the middle of the migration, or two starts at once, must
  not lose the certificate and the trusted devices. What is copied is what
  `QDir::entryList` lists, what is removed is everything.
* **SFTP**: libssh calls back while the worker waits inside the list that the
  callbacks change; handles stand for addresses that are used again; writes are
  acknowledged before they are made; operations of several steps, of which one
  fails.
* **Notifications**: a thread that opens a connection its owner closes; a list
  of applications that is written back while it is changed elsewhere; pictures
  from other applications that reach a null pointer if nothing stops them.
* **List models**: raw pointers into lists of another object, whose objects die
  later than they leave; views of views, set up from QML in any order; rows of
  players that the plugin has forgotten and not yet announced as gone.
* **D-Bus objects**: a cached answer that a signal outdates.
* **Battery, clipboard** (not modelled): `refresh()` of the battery makes three
  blocking requests, and signals that came between them are handled after it
  with older values (`batteryreportplugin.cpp:132`); the clipboard orders
  contents by time stamps of two clocks (`clipboardplugin.cpp:45`).

`PROJECT.json` lists each of these hazards at its line, with the properties that
guard it or the reason why none does yet.

## 2. The modules

    Transfer  <--implements (checked, proved)--  CopyJob
    Downloads                                    (many copies, seen from outside)
    SftpFiles   <--extends--  SftpServer         (requests; the connection)
    SortFilter  <--extends--  DeviceList         (views; the list they show)
    AlbumArt, Telephony, Notifications, Players  (stand alone)
    Migration  ->  AppStart                      (one follows the other in main)

| Module | Models |
|---|---|
| `Transfer` | the abstract promise of a transfer job: a status, a size, a count of bytes; one outcome, final; "succeeded" only with the announced number of bytes |
| `CopyJob` | one CopyJob between a source (`file`, `socket`, network `reply`) and a destination (`file`, `ssl` socket) |
| `Downloads` | several received files from packet to notification, with the file system and the JobManager |
| `Telephony` | oFono, its signals and answers, and the plugin |
| `AlbumArt` | the album art cache of one player: packets, fetching jobs, redirects, files, image responses, reloads |
| `Migration` | starts of the application that copy and remove an old installation |
| `AppStart` | starts after the migration: the D-Bus name, window, background mode and its systemd service |
| `SftpFiles` | the SFTP server's requests on a small file system, its open files and directories, libssh's handles |
| `SftpServer` | one connection to it: login, channels, the loop over them |
| `Notifications` | the monitor thread, the listener and its list of applications |
| `SortFilter` | the sorted and filtered view of a list, as functions on a record |
| `DeviceList` | the list of devices under the three views of the device page and the one of the cover |
| `Players` | the remote players from the other device to the rows of the device page, and the page's knowledge of the plugin |
| `MC...` | the constants TLC uses |
| `..._proofs` | the theorems about the module of that name; `Mpris_proofs` those about `Players` and `AlbumArt`, `Phone_proofs` those about `Telephony` and `Notifications` |

### CopyJob

The variables `m_size`, `m_started`, `m_sourceEof`, `m_finished`,
`m_bufferSize`, `m_writtenBytes` are the class's members; `isFinished`, `error`
are KJob's, and `reported`/`reporter` record what `finished` was emitted with
and from where. `arrived`, `avail`, `srcOpen`, `srcEnded`, `dst`, `btw` are the
two devices. The event queue is `startPosted` and `polls`, which count the
posted `doStart` and `poll` calls; `deleteLater()` was called when a job
finished, and its event comes behind those calls.

| Action | Code |
|---|---|
| `Start`, `DoStart`, `DoStartRefused` | `start()`, `doStart()` and its early return |
| `QueuedPoll` | a `poll` posted by `poll` |
| `ReadyRead`, `ReadChannelFinished` | the signals of a sequential source (a reply has no `readyRead` connected) |
| `BytesWritten`, `Tick`, `Disconnected` | what drives an ssl destination |
| `Kill`, `KillUnstarted` | `KJob::kill` with `doKill`: closing the destination emits `aboutToClose`, which finishes the job before `kill()` can mark it as killed |
| `DeferredDelete`, `Destroy` | `deleteLater()` after the end, deletion with the parent |

`Poll` is the whole of `poll()` with every way a read and a write may turn out,
and it is part of each action whose slot calls it; `Finish` is the whole of
`finish()`. The model keeps a peculiarity of the code that later bytes depend
on: a failing `poll()` emits the result, yet leaves `m_finished` unset and the
devices open, so that until its deletion the failed job goes on copying.

`Transfer` is reached through the mapping `status` at the end of the module, with
`size <- m_size`, `moved <- m_writtenBytes`.

### Downloads

`file` is the download directory: for each path whose bytes it holds. A path is
a name and the number of its suffix. `status`, `size`, `moved` are what a job
has told, its announced size and the bytes it has written, `dest` is `DownloadJob::m_destination`; `state`, `failed`,
`target` are `JobInfo`, `summary` is the notification, `received` are the
announcements by `shareReceived`. `plugin` is the life of the SharePlugin: when
the device goes, it and its jobs are deleted, and unfinished jobs emit
`finished()` from `~KJob` without an error.

`ReceivePacket`, `DoStart`, `DoStartNoFolder`, `DoStartNoFile`, `Copy`,
`CopyAfterFailure`, `Cancel`, `PluginDeleted`, `PluginLoaded` are the events; the
observers' slots (`JobInfo::onFinished`, `JobsNotificator::jobChanged`,
`SharePlugin::finished`) run inside them and are the operators `Finished` and
`Result`. Of the copying there is what the files and notifications depend on:
`Copy` lets `poll()` write any number of bytes, and `Ends` says with which
result `finish()` may end a copy of that length. That nothing else happens is
what `CopyJob` and its refinement of `Transfer` are about; `Downloads` does not
claim it again.

### Telephony

`modem` and `call` are oFono's own state. `events` is what QtDBus has posted to
the plugin: a signal reaches only objects that are connected when it is emitted.
`pc` tells where the plugin is, because `GetModems` and `GetCalls` block the
loop while oFono goes on. `objects` are the `TelephonyCall`s that exist at each
path, by number, with their States; `m_calls` is the number of the one that the
plugin knows there, `m_send_call_state` what was last told of the path.
`managers` holds more than one `VoiceCallManager` when a modem's removal was
missed during the start. The actions bear the names of the slots. `deleteLater`
posts an event like any other (`DeferredDelete`, `ManagerDeleted`), and what is
still posted to an object that is deleted stays in the queue as `Dropped`.

`Faults` names what else oFono may do: `outrun` lets it change a call that the
plugin has not seen yet (`Seen`), `refusal` lets it answer with errors, `vanish`
lets a modem go with calls on it. The plugin has not seen a call while its
`CallAdded` is queued, nor, of a modem whose `ModemAdded` is queued or whose
calls are being asked for, any call at all: one that is found in the answer and
in a `CallAdded` too has two objects, of which `m_calls` forgets one, and what
that one tells later may be older than the answer. `Seen` is an assumption on
oFono's pace, not on the plugin; the findings say what happens without it.

### AlbumArt

`m_fetching`, `m_diskCache`, `m_redirectCount` are the code's members, indexed
by URL instead of its hash. `transfer` tells that a job's `m_fileTransfer` is at
work, `sized` of which URLs the last transfer had its size announced, `file` what the cache file of a URL holds, `asked` which requests the
device has not answered. `gained` is history: what `m_diskCache` got since it
was read from the disk. A response is an `AlbumArtImageResponse`; its `inbox`
holds the queued signals of its job.

`PlayerPacket`, `PlayerList` and `endFetching` are the packets,
`startFetching`, `gotData`, `failed` and `Finished` the methods they and the
transfers call. A transfer is a CopyJob, so that it moves bytes
(`TransferMoves`) and then ends in one of the ways of `TransferEnds`: with all
bytes of a known size, with whatever came if no size is known, with an error, or
with a redirect. No size is known of what a web server sends, nor of a payload
with `payloadSize` -1, which `endFetching` hands on as it is. `requestImageResponse` blocks the image thread until the GUI thread
has looked the job up, hence is one action. `Crash` is a packet with a URL from
a device that does not announce payloads: the code uses a null cache there.

### Migration

`old`, `oldDirs` are the old directory, `new` says for each file of it what is
in the new place: nothing, the copy, or a file the application made itself.
Each start runs through `pc`; `subdirs`, `at` and `todo` are the local variables
of `copyDirectory`'s two activations (listing of directories, the directory
being copied, the files still to copy). Every system call that another start or
a kill can come between is an action: listing (`ListDirs`, `EnterDir`,
`EnterTop`), `QFile::copy`'s opening and its renaming (`Open`, `Rename` and
their failures), each removal (`RemoveFile`, `RemoveDir`). `Configure` is the
start that gets the D-Bus name and makes a certificate and a key if it finds
none. `entryList` is what `QDir::entryList` tells: the code asks it neither for
hidden nor for system entries, so that the files `HiddenFiles` and the
directories `HiddenDirs` are never copied, while `RemoveFile` and `RemoveDir`
take them like any other. `Listed` are the files that can come to be copied. `Faults` allows kills, failing operations and parallel starts.
`disturbed` is history: one of these has happened.

### AppStart

`pc` follows a start through `main()`, `view` is its window, `owner` the holder
of the D-Bus name, `setting` the stored `runInBackground`, `enabled` what
systemd has, `calls` the running `systemctl` processes in the order of their
start. `showMainWindow` occurs twice: in the holder's own start
(`ShowFirstWindow`), where it sets up background mode from the setting, and when
another start calls it (`Raise`). A call to a holder that is not in its event
loop yet waits; one to a holder that is ending fails (`RaiseFails`). `Faults`
lets `systemctl` calls overtake each other (`reorder`) and be killed with the
application (`kill`), which is what `QProcess` children may do.

### SftpFiles and SftpServer

A request is served in one step, because the session's thread does nothing else
meanwhile. `fs` says of each name whether there is a file, a directory or a
link; contents are left out. `objects` are the `QFile`s and `QDirIterator`s of
all sessions by their *address*, which is the key of the code's two maps and
what libssh stores for a handle (`slots`); a new object may get the address of a
deleted one. `meant` is history: what the client opened under a handle. An
object remembers what a listing has not told yet (`left`, `done`) and how many
acknowledged writes `QFile` still holds (`unsaved`).

Each `reply...` operator is the method of that name with its order of tests: a
rename removes the target first, a link is refused by `LSTAT`, the flags for
creating are looked at with Qt 5.11 only (`ModernQt`; Sailfish OS has 5.6).
Every operation of the file system may be refused. A full table of handles
leaves the request without an answer (`"silent"`), as `sftp_reply_handle` does
with a null handle.

In `SftpServer`, `thread` is where `SshFsThread::run()` is. Callbacks
(`authorizeWithPassword`, `createChannel`, `startSftpSession`, `closeChannel`)
may come whenever the thread is inside libssh. `at` and `end` are the iterator
and the end of the range-based loop over `m_channels`. If the list is changed
under it, the loop's references may be dead (`"broken"`): it then crashes, ends,
or finds nothing odd and comes to its next sweep (`GoOnBroken`). `"aborted"` is
the end of the whole process: a second close of a channel, a session asked for
on a closed one, a channel without session in the loop. Callbacks during the
sessions' initialisation in `StartServing` are left out.

### Notifications

`thread` is how far `run()` of each monitor thread is, `listener` the thread of
the plugin's present listener. `GetConnection`, `BecomeMonitorAnswered` and
`RunEnds` are the thread's steps, `quit` what the owner does: it closes the
connection if there is one, and nothing otherwise (`early`). A thread whose
monitoring was refused goes on deaf. `m_applications` and `config` are the
listener's list and the stored one; `configChanged` counts signals on their way.
`onNotify` is the whole handler, with the writing back of the list (`Meet`), the
filters (`Wanted`) and the picture (`Payloads`): `nextVariant` drops what is no
basic type, which is all that stands between a picture and a null pointer in
`imageToPngBuffer`. `sent`, `choice` and `unread` are history.

### SortFilter and DeviceList

A view is a record and each setter of `SortFilterModel` a function on it;
`baseFilter`, `baseSort`, `regExp`, `rows` are what the base class keeps. In
`DeviceList` a device is known by its address; `object` holds each object's
life: alive, doomed (removed by the daemon, its `deleteLater()` waiting) or
dead, and its address free for another. `watched` counts the model's
connections to it. `views` are the three of `DeviceListPage.qml`, one of which
is a view of another, and the one of the cover; QML assigns their properties in
any order (`ViewCreated` chooses one, `ViewComplete` completes it), and those of
the cover change later too. `painted` is what a delegate shows: it reads again
exactly the roles that `dataChanged` names. `TypeChanges` gives a device another
type, on which its icon depends, and tells the model nothing, because the model
connects nothing to it.

### Players

`m_players` is the plugin's map, `remote` what runs on the other device,
`toDevice` and `fromDevice` the packets on their way. `receivePacket` changes
the map and leaves the signals of a list in `pending`; `EmitSignal` sends them
one by one, and the page may read rows in between. `setPlugin`, `playerAdded`,
`playerRemoved`, `playerUpdated` are the slots of `MprisPlayersModel`, `shown` and
`connected` its rows and connections. `LinkChanges` and `setData` load and unload
the plugin, `notices` are the D-Bus signals that tell the page so, and
`m_loadedPlugins` is what `DeviceApi` remembers until then.

## 3. The runs

| Run | Question | Result |
|---|---|---|
| `CopyJob` | Is a success complete, is no wakeup or end missed, does the job keep Transfer's promise, does it end? | holds |
| `Downloads` | Do three downloads of one name leave each other's and the user's files alone, do notifications follow? | holds |
| `Telephony` | Is the device told the state of every call, and does no active one ring again, if oFono does not outrun the plugin? | holds |
| `TelephonyRace` | Is the device told the state of every call, if it may? | violated |
| `AlbumArt` | Is each picture fetched by one job, is only a whole one of a known size cached, is every waiting response told, does fetching from the web end? | holds |
| `Migration` | Is no listed file lost, and do certificate and key stay a pair if nothing disturbs the migration? | holds |
| `AppStart` | Is there one instance, can it always be brought to the front, does an invisible process go on only in background mode? | holds |
| `AppStartService` | Does the systemd service follow the setting, if `systemctl` calls may end in another order or are killed? | violated |
| `SftpServer` | Do handles keep their files, are listings whole, do writes reach the file, do refused requests leave things alone, do channels take turns? | holds |
| `Notifications` | Does the listener go by the stored list and keep the user's choices, does no picture end the process, do abandoned threads end? | holds |
| `DeviceList` | Are the rows the daemon's devices, do the pages show their present name, pairing and reachability, do views obey their settings? | holds |
| `Players` | Has each row its player, does the plugin catch up with the device, and the page with the plugin? | holds |

What each property says stands above it in its module. In short:

* `NothingMissed`: whenever a running job could move bytes a poll is queued, and
  whenever its copy is complete it has ended or waits for the disconnect it
  asked for. This is a state predicate, so no fairness hides a gap.
* `SuccessIsWhole`, `KeepsPromise`: what a result without error means, how many
  there are, and that it is final.
* `SourceEndsJob`: the job ends after its source has ended, and at its announced
  size although the peer keeps the connection open. It excludes a job that keeps
  bytes in its buffer for ever (`<>[](m_bufferSize # 0)`): the code has no event
  that flushes the rest of a partial write to a file once the source is silent,
  and such a job hangs. This is listed as a hazard; no document promises
  otherwise. A source that ends before `doStart` has connected to it is not
  noticed either, and a copy of unknown size then waits for ever.
* `FilesKept`, `ReceivedFilesStay`: the name found free is still free when the
  file is created, no file is written by two jobs, and a received file stays.
* `NotesAreTrue`: a success is shown only for received files, with the one
  exception the code makes, a job abandoned with its plugin; and no progress
  notification outlives its job.
* `CallStatusShared`, `NoStepBack`, `UntoldCancels`: see section 1. The last
  names all the cases in which the code cancels a call it has not told of. All
  three are checked without `outrun`, that is, under `Seen`.
* `PicturesAreWhole`: no mark of a failure and no part of a transfer is taken
  for a picture, neither by the cache nor by a response that reads the file some
  time after its job's signal. The exception it names is a transfer of no
  announced size that was cut short, from the web or from the device.
* `FetchUnderWay`: one job writes a file; the early returns of `askForAlbumArt`
  never leave a job without a request; a waiting response has a signal queued or
  a job that is still to finish. `CachedFilesStay`: nothing writes a file that
  counts as cached. `WebFetchEnds`: redirects do not go on for ever.
* `NothingLost`: at every moment, also after a kill, each old file that
  `entryList` lists is in its old place or copied. It says nothing of hidden
  ones, which a migration that succeeds loses. `IdentityKept`: a start that was not disturbed gives the
  application both the old certificate and the old key.
* `SingleInstance`, `HiddenInBackground`, `StartShowsWindow`: no second user
  interface, no invisible process that nothing keeps alive on purpose, and a
  window after each plain start (unless the holder of the name is ending).
* `HandleKeepsFile`: a handle not closed stands for what was opened under it,
  although addresses and handles are used again. `ListingComplete`: the end of a
  listing comes after all its entries. `OneUnsavedWrite`: each write flushes the
  one before, so at most one that was acknowledged can be lost silently.
  `RefusedChangesLittle`: a refused request changes nothing but the target of a
  rename. `ChannelsTakeTurns`: no channel is overtaken for ever.
* `ListIsStored`, `ChoiceIsKept`, `OffIsSilent`: with no change on its way the
  listener's list is the stored one; a user's choice is overwritten only before
  it was read; and nothing is sent for what is switched off once that is known.
  `PicturesDoNoHarm`: see section 2. `OrphansEnd`: a thread ends after its
  plugin, unless it was told to quit before it had a connection.
* `RowsAreTheDaemons`: no row is a dead pointer, each device has one row and one
  set of connections. `PageIsCurrent`: the page's lists hold what they are for
  and delegates show the present name, pairing and reachability, but not always
  the present icon. `ViewsObeySettings`: the order of assignments makes no
  difference.
* `RowsHavePlayers`: `data()` finds a player for each row, except between a
  removal and its signal. `PlayersFollowDevice`: when nothing is under way the
  plugin knows the device's players. `DeviceApiCurrent`: and the page knows
  whether there is a plugin.

Where the types are proved (section 4), a run checks them only if a fault of the
code could break them.

### Bounds

* `CopyJob`: three units of bytes, a buffer of two, a limit of two. A stream is
  then empty, smaller than, equal to or larger than the buffer; partial writes
  leave a rest; the ssl queue reaches its limit with bytes still readable. Sizes
  announced may be too small, exact, too large or unknown. `MaxPosted` bounds
  the posted polls a timer tick may find. The safety part is proved for all
  values; only the liveness part rests on these.
* `Downloads`: three jobs of one name (different names share no path), up to
  two user files in the way, one byte of payload, so that a payload is complete
  or not, five paths so that a free one always exists. Proved for any number of
  jobs, names and files.
* `Telephony`: one path that is used without end, one modem, at most four
  waiting events when oFono emits, two objects when a call comes (so that there
  may be more of them). Paths share nothing but the modem, its managers and the
  queue, which keeps the order of the events of each path. Three waiting events
  are the fewest with which the word of a forgotten object can come late (see
  `Seen`); `TelephonyRace` needs one. Proved for any number of paths, objects
  and events.
* `AlbumArt`: one URL of the device and one of the web, because jobs of two URLs
  share nothing but the responses; two responses, so that one may be waiting
  while another is finished; two redirects instead of ten, so that the limit is
  passed. The device's payload comes with and without a size. The safety part is proved for any URLs, responses and limit.
* `Migration`: two starts; a directory of a device with one file, and the top
  directory with certificate and key, in that order; a hidden file in the top
  directory and a hidden directory with a file. Both properties are proved
  for any tree of this depth and any number of starts.
* `AppStart`: two starts at a time, each used again without end, and at most
  two running `systemctl` (three when a start adds its own).
* `SftpServer`: two channels, four requests in any combination, two names (below
  a root), three addresses for two handles of each channel, so that an address
  is used again while another object lives, and handles run out; chunks of one
  entry, so that a directory of two names takes two; two tries.
  All five properties are proved for all values.
* `Notifications`: two applications, seven notifications that differ in what the
  code looks at, two shown and two changes of the list at most, two threads, so
  that one outlives its plugin while the next works.
* `DeviceList`: two devices and two addresses, so that a device returns at
  another's address while its old object is doomed; two names; three of the four
  states of pairing (the fourth only repeats the third's part); two types, of
  which a device has the first when it comes; two later changes of the cover's
  settings or of types. Proved for any of these.
* `Players`: two players, one of them Spotify, and six changes by user, device
  and network, enough for a player to come, be commanded, go and come again
  across a reload. Proved for any number of players and changes.
* `CHECK_DEADLOCK FALSE` where the system may stop: a deleted job, a connection
  that has ended, a crashed process, and bounds of the environment.

### Fairness

`CopyJob!Fairness`: the event loop handles what was posted to it (`DoStart`,
`QueuedPoll`, `DeferredDelete`), the network sends what an ssl destination holds
(`BytesWritten`) and answers our disconnect (`Disconnected` after
`disconnectFromHost`). Nothing makes the peer send or close: there is no timeout
in the code, and a silent peer keeps a job waiting. Each liveness property starts
from an event that has happened (`m_sourceEof`, or all bytes received).
`AppStart!Fairness`: a process that has been started or is quitting goes on, and
so does a running `systemctl`; nobody need start, close or change anything.
`AlbumArt!Fairness`: a web server ends each answer it has begun, by success,
error or another redirect, and the image thread handles what is queued for it.
The first is an assumption about the network that the code makes as well: it
sets no timeout. Nothing is assumed of the device, so that a picture requested
from it may be waited for without end, as the TODO at `albumartcache.cpp:144`
says. `Notifications`: a thread goes on by itself, and the bus answers it
(`GetConnection`, `BecomeMonitorAnswered`, `RunEnds`); nobody need show a
notification. The other modules state safety only.

### Findings

* **Call status lost in a race** (`telephonyplugin.cpp:46`). A call's
  `PropertyChanged` is connected when its `TelephonyCall` is made; its state was
  taken earlier, with the answer to `GetCalls` or with `CallAdded`, and is not
  asked for again. A change in between is never seen, and the device keeps
  showing a ringing call (`TelephonyRace`). README promises to share "call status
  (incoming or active)". `TelephonyRace` stops at the shortest such run; the
  promise, and with it `NoStepBack`, fails in another order as well:
  1. a call comes while `GetCalls` is asked, and its `CallAdded`, with the State
     "incoming", waits behind the blocking call;
  2. the call becomes active, which nobody is connected to hear;
  3. `GetCalls` answers "active", and the device is told of talking
     (`telephonyplugin.cpp:121`);
  4. the waiting `CallAdded` is handled: a second object with the State
     "incoming" takes the call's place, and the device is told that it rings
     (`:145`, `:202`).
  TLC finds these steps with the constants of `TelephonyRace.cfg` and
  `NoStepBack` as the property.
* **Setting and service** (`ui.cpp:202`). Each change of background mode starts a
  `systemctl` that nobody waits for. One that still runs when the application
  ends is killed with it, and `enable` and `disable` in quick succession run at
  the same time. The stored setting and the service then differ
  (`AppStartService`). With the setting on the next start repairs it; with the
  setting off none does, because `setRunInBackground(false)` returns at once.

The following is what the code does beside these; the models follow it, and
it limits what the properties can say.

* The Telephony plugin compares with `"dealing"` where oFono says `"dialing"`
  (`telephonyplugin.cpp:183`): an outgoing call is told of only when it alerts.
* `main()` shows the window before it looks at `--daemon`
  (`sailfishconnect.cpp:311`), although the help text says that it is not shown.
* A migration that was cut short is never completed. If it was cut before
  `certificate.pem`, each later one fails on the files that already exist, and
  the application makes a new certificate; if between `certificate.pem` and
  `privateKey.pem`, the old certificate meets a new key. `IdentityKept` therefore
  speaks of undisturbed starts. Nothing is removed in these cases: `NothingLost`.
* A migration that succeeds loses what `entryList` does not list: hidden files
  and directories, and links that lead nowhere. `copyDirectory` asks for
  `QDir::Files` and `QDir::Dirs` without `QDir::Hidden` and `QDir::System`
  (`sailfishconnect.cpp:188`, `:199`), and `removeRecursively` (`:225`) removes
  them all the same. `NothingLost` therefore speaks of what is listed.
* A web server's answer that breaks off is cached as if it were whole: its size
  is not known, and the error of the `QNetworkReply` is not looked at. The same
  goes for a payload of the device whose packet tells no size
  (`mprisremoteplugin.cpp:196`).
* A device whose type changes keeps its old icon in the lists: the icon follows
  the type (`devicelistmodel.cpp:87`), and `connectDevice` connects no signal of
  its change. `PageIsCurrent` therefore leaves the icon out.
* A failed fetch leaves an empty file, an aborted one a part. They count as
  cached after the plugin was loaded again, and such a picture is never fetched.
* A URL from a device that did not announce `supportAlbumArtPayload` reaches a
  null pointer (`mprisremoteplugin.cpp:208` with `:122`).
* The SFTP server: a rename onto itself removes the file, and one that fails has
  removed its target. A channel that is closed or opened while the loop runs may
  leave dead references in it; a client that ends the data of a channel and then
  closes it ends the process, because the second callback does not find the
  channel. Sessions that have ended stay in `main()`'s list with their files
  open.
* A notification thread that is told to quit before it has its connection goes
  on monitoring, for no listener.
* A sort direction that is changed while no sort role is named is not taken up
  when a role is named again (`sortfiltermodel.cpp:103`); no page does that.
* A player's row that is read between the list packet and `playerRemoved` has a
  null player (`mprisplayersmodel.cpp:53`).

## 4. The proofs

### CopyJob

For every `BufCap`, `HighWater`, `MaxBytes`, `MaxPosted` and every set of device
kinds; assumed is only that the bounds are natural numbers, buffer and limit are
not zero, and a read at the end returns 0 or -1 (the four `ASSUME`s of the
module).

| Theorem | Says |
|---|---|
| `TypeCorrectness` | types; the buffer does not overflow, counters stay in the stream |
| `Conservation` | every byte received is unread, buffered or written, exactly once |
| `SuccessWhole` | `SuccessIsWhole`, from `NoPartialSuccess` (of an announced size) and `NoTruncatedStream` (of an unknown one) |
| `Wakefulness` | `NothingMissed`, that is `NoLostWakeup` and `NoMissedEnd` |
| `KeepsItsPromise` | CopyJob implements `Transfer` |
| `Invariance` | the inductive invariant behind them |

**The invariant.** Neither safety property is inductive. `SuccessIsComplete` is
kept by later polls only because a success sets `m_finished`, which makes
`poll()` return at once (`SuccessIsFinal`), while a *failed* job is not frozen;
`UnknownSizeIsWholeStream` needs the conservation of bytes (`BytesConserved`)
and that `m_sourceEof` of a sequential source is set by its end only
(`Connected`). `Connected` also says that a running job has open devices, that
a queued poll belongs to a started job, that no started job has a `doStart`
queued, and that a file source has settled its size. `IndInv` is their
conjunction.

**The argument.** Six actions are `poll()` in some context, so the work is done
once: `PollEffect` says what a poll can do to the variables, `PollKeepsInv` that
it keeps the invariant, given a `PollContext` (what its caller guarantees), and
each action shows its context. `FinishKeepsInv` does the same for the three ways
into `finish()`, `QuietKeepsInv` for the steps that neither pump nor finish.
`NoLostWakeup` and `NoMissedEnd` are inductive only together and only relative
to `IndInv` (`Awake`, `PollWakes`, `NextAwake`). The refinement is proved by
`Faithful`, a relation between two states of `Transfer`'s variables that each
poll and finish establishes, and that `FaithfulIsAbstract` turns into a step of
`Transfer` or a stutter.

### Downloads

For any number of downloads, any names they ask for, any files of the user and
any payloads; assumed is `DownloadsAssumption` (there are finitely many
downloads and more suffixes to try than downloads, numbers are natural, the two
marks for a file of the user and for no file are no downloads).

| Theorem | Says |
|---|---|
| `FilesAreKept` | `FilesKept`, an action property |
| `ReceivedStay` | `ReceivedFilesStay` |
| `NotesTrue` | `NotesAreTrue` |
| `TypeCorrectness` | `TypeOK`; `nonexistingFile` finds a path |
| `Invariance` | the inductive invariant `DownloadsInv` |

`DownloadsInv` ties the directory to the jobs: the file of a job is where its
destination says, a running job has its file, and what was received is whole
and there unless it was cancelled. That a job which starts finds a free path is
a counting argument (`LeastElement` and the lemmas after it): with fewer files
than suffixes one suffix is free, and among those that are free one is least,
which is what the loop over the suffixes stops at. The notifications follow from
the same invariant, which says for each job which summaries it may show.

### Migration

For any number of starts, any numbering of the directories, any files in
them and any of these hidden, except certificate and key; assumed are `TreeAssumption` (each file is in a directory, certificate and
key are in the top one) and `FaultsAssumption`.

| Theorem | Says |
|---|---|
| `NoFileLost` | `NothingLost`: of listed files |
| `IdentityIsKept` | `IdentityKept` |
| `TypeCorrectness` | types |
| `Invariance` | the inductive invariant `IndInv` |

`NothingLost` is not inductive: it has to be excluded that a start begins to
remove what it, or another one, has not copied. `IndInv` says so in three parts.
Whoever removes has found everything that is listed copied (`AllNew`), and if
anything is gone it is copied, too; and as long as nothing is gone (`Intact`),
each start has copied all listed files of the directories behind it, except those still on its list
(`CopiedBehind`). The last part holds only while the old directory is intact,
because a listing taken while another start removes is short; that is harmless
then, by the second part. Copies are never lost again: no step takes an `"old"`
entry of `new` away. `StepKeepsInv` shows this once for a step of one start,
`IdleKeepsInv` for the steps that leave its lists alone, and each action has a
lemma that shows which of them applies.

`IdentityKept` needs a second invariant, `QuietInv`: as long as nothing disturbs
the migration, either certificate and key are the old ones, or no start has been
through it yet, and then the only one under way finds nothing in the new place
of any file that is still before it (`FirstStart`, `Ahead`). Hence no copy of
it fails, and it comes to its end with everything copied.

### AppStart

For any number of starts and every choice of `Faults`; assumed is that `Nobody`
is none of the starts, and that `MaxCalls` and `Faults` are what they are for.

| Theorem | Says |
|---|---|
| `OneInstance` | `SingleInstance` |
| `NoneLeftBehind` | `HiddenInBackground` |
| `TypeCorrectness` | types |

With the types the two properties are inductive, the second only together with
the first: `m_runInBackground` is one process's member, and a change of it must
not be another's. `ServiceFollowsSetting` is not proved: it is false for the
real `Faults`, and without them it rests on the last of the queued calls.

### SftpServer

For any channels, names, handles, addresses and flags, any chunk size and number
of requests; assumed are `SftpAssumption` and `ServerAssumption` (the special
names are no names, the numbers are natural).

| Theorem | Says |
|---|---|
| `TypeCorrectness` | types; the loop's channel is in the list |
| `TurnsAreTaken` | `ChannelsTakeTurns`, for a finite number of channels |
| `HandlesKeepFiles` | `HandleKeepsFile` |
| `ListingsComplete` | `ListingComplete` |
| `WritesReachFile` | `OneUnsavedWrite` |
| `RefusalsChangeLittle` | `RefusedChangesLittle` |

`HandleKeepsFile` is not inductive: that a handle's object is what was opened
does not say that nobody else's handle stands for the same address, whose close
would free it. `HandlesOwn` adds this: an address behind an open handle belongs
to that channel and to one of its handles only, and is not free. Each request has a
lemma (`OpenDirKeeps`, `CloseKeeps`, ...) that it keeps `FilesInv`; `MessageKeeps`
joins them, so that the connection's proof has one case for `Serve`. The action
property rests on `RenameChanges` and on `MessageChanges`, which says that every
other request either succeeds or leaves `fs` alone.

`ChannelsTakeTurns` bounds by the number of channels what is counted over the
order of a list that changes under the loop. `TurnsInv` says of each waiting
channel that the turns it has waited, with those that the loop will still give
to others before it (`Turns`: the rest of this sweep, or that and a part of the
next), are no more than the bound. Channels are in the list once, so that no
distance is longer than two sweeps (`ListFits`, `TurnsBound`), and a removal
brings nobody further from its turn (`RemoveAtElements`).

### Telephony

For any paths and any bounds on waiting events and objects. The types are proved
for every choice of `Faults`; the rest under the hypothesis
`Faults \subseteq {"refusal"}`, that is, if oFono lets the plugin see a call
before it changes it and takes no call along with a modem. Without that
`CallStatusShared` is false: `TelephonyRace` shows it for the first, the second
is the TODO in the code. `NoStepBack` is false without the first, too (section 3,
findings). The hypothesis is about oFono: the code does not enforce it, and these
theorems say what the plugin makes of calls that it gets to know in time.

| Theorem | Says |
|---|---|
| `TelephonyTypes` | `TelephonyTypeOK` |
| `StatusIsShared` | `CallStatusShared` |
| `TalkedOnIsNotRinging` | `NoStepBack`, an action property |
| `CancelsAreOfTold` | `UntoldCancels`, an action property |

Everything here is about what waits in a queue, so the proof has a language for
that: `Moves` describes a step by what leaves the head, what is dropped in place
and what comes to the end, each action has a lemma that says which move it is
(`CallEndsMoves`, `onCallRemovedMoves`, ...), and `MovesQueued`, `MovesFollowed`,
`MovesLast` say what a move does to the members of the queue, to their order and
to the last of a kind. The invariant has three layers:

* `LinksInv`: events are about objects that exist, and a deletion is posted once
  and never for the manager or the call in use. It holds for every oFono.
* `OrderInv`: what never stands before what (`Bad`: a word about a call comes
  neither behind its `CallRemoved` nor behind a `CallAdded` of its path), that
  a `CallAdded` tells the present State, and that the answer to `GetCalls` is not
  older than the calls.
* `TaleInv`: what the device will believe of a path. Its `Tale` is what was told
  last if nothing more is to be heard, and otherwise the last State that waits
  for an object which lives: of a call that is over or does not ring yet the tale
  ends with a cancel (`OverInv`), of one that the plugin knows it ends with the
  State (`SettledInv`), and before a call is seen no other State was told
  (`UnseenInv`). `RingingInv` keeps a word of ringing from coming behind one of
  talking, `KnownInv`, `LastWordInv` and `OnlyCallInv` say what the known object
  has heard.

What a step of the plugin can do to a path is said once (`Touched`): it makes an
object, forgets one, makes one hear, or leaves the path alone. Each part of
`TaleInv` is shown for these four and for what oFono does (`Speaks`, `Unspoken`).

### Notifications

For any applications, notifications, settings and threads.

| Theorem | Says |
|---|---|
| `ListFollowsStore` | `ListIsStored` |
| `OffStaysSilent` | `OffIsSilent` |
| `NoPictureHarms` | `PicturesDoNoHarm` |
| `ChoicesKept` | `ChoiceIsKept`, an action property |
| `TypeCorrectness` | types |

The last but one needs that a choice that was read stands in the listener's own
list, since this is what `onNotify` writes back.

### Players

For any finite set of players, any Spotify among them and any number of changes.

| Theorem | Says |
|---|---|
| `EveryRowHasItsPlayer` | `RowsHavePlayers` |
| `PageFollowsPlugin` | `DeviceApiCurrent` |
| `PluginFollowsDevice` | `PlayersFollowDevice` |
| `TypeCorrectness` | types |

`Signalled` is the strengthening: a player whose coming is still to be signalled
has no row, and one whose going is still to be signalled has one; `Unlisted`: a
page without plugin has no rows at all.
`PlayersFollowDevice` speaks of a moment when both queues are empty; `FollowInv`
says what keeps it true meanwhile. Of the packets under way only the last counts
that says something: the last list names the device's players, or the plugin's
map does and at most misses some while the list is asked for (`ListRight`); and
of each player that will last the last value of each field is right, or its
status is still to be asked for (`StatusRight`, `Asked`).

### AlbumArt

For any URLs, responses and limit of redirects.

| Theorem | Says |
|---|---|
| `PicturesWhole` | `PicturesAreWhole`, whose exception is a transfer of no announced size |
| `FetchesUnderWay` | `FetchUnderWay` |
| `CachedStay` | `CachedFilesStay`, an action property |
| `ArtTypeCorrectness` | `ArtTypeOK`; no job redirects past the limit |
| `ArtInvariance` | the inductive invariant `ArtInv` |

What is fetched is not cached, what transfers is fetched, and what was gained is
a picture (`JobsInv`). A response that was told of success reads the file later,
so `ResponseInv` says that until then the file holds the picture, and that while
the plugin lives its URL counts as cached, so that nothing writes it; and one
that waits has a signal, or a job at work.

### DeviceList

For any devices, addresses, names and number of later changes; assumed is that
`None` is no address and no view.

| Theorem | Says |
|---|---|
| `RowsAreDevices` | `RowsAreTheDaemons` |
| `PageStaysCurrent` | `PageIsCurrent`: name, pairing and reachability, not the icon |
| `ViewsObey` | `ViewsObeySettings` |
| `TypeCorrectness` | `TypeOK` |
| `Invariance` | the inductive invariant `IInv` |

The rows are exactly the daemon's objects, each is connected to once
(`DaemonInv`, `ShownInv`), and delegates show what the objects say, but for the
icon (`PaintInv`).
A view is described by `ViewOK`: complete, it holds the rows its settings want
and its base class goes by the roles they name (`Agrees`). Each operation of
`SortFilter` has a lemma that it keeps `ViewOK` for any assignment, so that the
order in which QML assigns the properties does not matter; a view of a view
takes the rows of the first for its source.

### What is not proved

**Out of the prover's reach**, and therefore model-checked only: liveness
(`SourceEndsJob`, `WebFetchEnds`, `StartShowsWindow`, `OrphansEnd`) and anything
else that rests on fairness or ENABLED; what a recursive definition computes,
since induction over data cannot be instantiated; modules with RECURSIVE
operators. The two properties that are expected to be violated are false, so
that there is nothing to prove. Every invariant and every action property of the
other runs is a theorem.

## 5. Not modelled

* Of CopyJob: progress amounts and texts. Of Downloads: uploads (the job is in
  the submodule), shared text and URLs, the wording of notifications except the
  summary. Of Telephony: contact look-up, several modems (the plugin treats them
  independently), voice mail.
* Keyboard layouts, `vcardbuilder`, `humanize`, path and URL helpers: synchronous
  input or pure functions. The contacts and Telepathy plugins are not built.
  QML pages are mostly layout. Build files and scripts are tooling.
* Of AlbumArt and Players: titles, volume, file names. Of the start:
  `openDevicePage` over D-Bus, logging, translations.
* Of the SFTP server: the accept loop and arguments of `main()`, contents and
  offsets of files, permissions. `sftpserverplugin.cpp` answers each packet with
  an empty one and starts no server. Of the notifications: texts and the
  conversion of pixels.
* Of the list models: the rows of `DevicePluginsModel` beyond the switch of one
  plugin (the comment in `setData` counts on a reset that nothing triggers),
  `StringListModel`, which has no state of its own.
* The components of the road map below.

## 6. Road map

In this order:

1. `BatteryReport`: the refresh of three requests against MCE's signals and the
   change of its owner. `Clipboard`: two devices with two clocks, and whether
   they agree in the end. `ServiceWatcher` with the start of the daemon.
2. `Humanize`: a pure function against a reference definition.
