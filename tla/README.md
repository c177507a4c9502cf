# A verification development for the gists repository

The repository is a collection of independent C and C++ programs and shell
scripts. This directory holds TLA+ models of the programs that have a logic of
their own, TLC configurations that check them on small instances, and TLAPS
proofs for every value of the constants. Every definition is translated from
the source; `PROJECT.json` maps each one to its lines.

## 1. Inventory

| Component | Source | State | Operations | Hard behaviour | What makes it correct |
|---|---|---|---|---|---|
| IMU receiver | `can_scoket1.c` | ring `P_IMU_DATA`, `fetch_pos`, `store_pos`, `bReady`, `imu_receive_running`, the mutex `imu_lock` | thread `IMUCanRecv`, `GetIMU` from any thread, `exit_imu_receive` | a mutex held over many frames; lost frames; exit in the middle of a packet | readers get whole, checked, current records; writes stay in the ring; waiters are served; the thread ends |
| IMU handshake | `can_scoket1.c` | `key`, the socket `s` with its filter and queue | `InitIMUCan`, `SetFilter`, `GetKey`, `WaitImuReady` | frames queued before a filter was set; resynchronisation after lost frames; failed reads | the key is one that was sent; a disturbance costs one packet; the handshake ends |
| Next-fit heap | `memalloc.cc` | four entries of 13 bytes, cursor `s_last_p`, high-water mark `s_iheap_max` | `_malloc`, `_free`, `xptr_valid` | cursor wrap, overruns, double frees, mark never lowered | one holder per block, no refusal while a block is free, no damaged block reused |
| Checked block lists | `safe-malloc-free.c` | `imemblock_list`, `bmemblock_list`, the cached index of `xptr_valid` | `_malloc`, `_xfree`, `_free`, `xptr_valid` | full list, failing libc, stale cache | the list describes libc's blocks; no dead memory is read |
| Header-checked malloc | `memalloc.c` | none (headers in front of blocks) | `_malloc`, `_xfree` | double free reads freed memory | frees only what it gave out |
| Guarded buffers | `decl.c`, `decl.cc`, `common.h` | stack buffers with guard words | declare, check on scope exit | nesting of scopes | an overrun is found before the frame is left |
| WPA control client | `wpa_client.c` | control and monitor sockets, interface name, the supplicant's networks | `session_open/close`, `send_sync_cmd`, `station_add/remove/connect/disconnect`, monitor thread | late replies on a datagram socket; half-done station set-up; check-then-act | an answer belongs to its request; a station is set up whole or not at all |
| CAN netlink library | `can_scoket2.c` | one socket per exchange; the kernel's link parameters | setters, getters, `can_do_restart`, loopback `main` | check-then-act over separate sockets, absent attributes, failed receives and writes, other processes | a result of 0 means the request was carried out or the value read, at one moment of the call; sockets are closed |
| CAN set-up tools | `can-setup.cc`, `can_scoket3.c` | as above | link up/down, bit rate | message sequence numbers | as above |
| File listing | `c-fs-list.c` | output buffer and its size | two recursive listings | truncation while recursing | the size stays inside the buffer |
| GitLab migration | `gitlab-setup.sh` | remote projects, cached tarballs | create, remove, migrate | interruption between steps, reruns | a rerun completes an interrupted migration |
| Toolchain set-up | `aarch64-sdk/` | download cache, environment | fetch once, export variables | interrupted download | no half download is used |
| Network helper | `net.py` | none | one-shot | – | – |
| VM and image scripts | `arm64-qemu.sh`, `xen-qemu-setup.sh`, `proxmox.sh` | file systems, mounts | linear scripts | – | – |
| Git wrapper | `git-wrapper.sh` | none | rewrite and execute one command | – | – |
| One-line scripts | `hibernate.sh`, `tty.sh`, … | none | – | – | – |

The programs do not call each other, with one exception: `InitIMUCan` in
`can_scoket1.c` uses the functions `can_scoket2.c` defines (`can_do_stop`,
`can_set_bitrate`, `can_do_start`). Inside a program the parts interact through
shared memory and a mutex (IMU receiver), through calls (the allocators), or
through a socket (WPA client, netlink).

The hazards of the code, each at the line where it bites and with the property
that covers it, are the `hazards` of `PROJECT.json`.

## 2. Plan

1. The IMU receiver: `ImuReceiver` (any frames), `ImuBus` (with a sender and
   loss), the abstract register `ImuSample`. Proofs of the receiver's
   invariants, of what readers get on a lossy bus and of the refinement.
   **Done.**
2. The allocators: `LinearScan`, the abstract `BlockPool`, `IHeap`,
   `SafePools`; proofs that the implementations refine the pool.
   **Done.**
3. The WPA client: `WpaControl` (requests and late replies over the control
   socket), `WpaStation` (the multi-command operations), which implements it.
   Proofs of the invariants of both and of the refinement. **Done.**
4. The CAN link: `CanLink` (the library and its callers), `CanSetup` (the
   command-line tools beside them), the abstract register `LinkRegister`, which
   both implement. Proofs of type, sockets, `InitIMUCan` and of the refinement.
   **Done.**
5. `ImuHandshake`: `GetKey` and `WaitImuReady` with frames lost and left over.
   Proofs of its invariants. **Done.**

Every invariant, action property and refinement that a passing run checks is also a
theorem; the five liveness properties stay with TLC (section 5).

## 3. Modules

### IMU receiver: `ImuReceiver`, `ImuBus`, `ImuSample`

`ImuReceiver` is the thread `IMUCanRecv` and any number of threads in `GetIMU`.
One action is one piece of code between two points where another thread can
interfere: a test of `imu_receive_running`, the handling of one frame, the
`pthread_mutex_lock`, the wrap test behind each frame, the copy of one part of
a record. A byte position is a record `[slot, part]`: `slot` counts the
`imu_body` structures, `part` the eight-byte pieces one data frame brings, and
byte positions the code can reach are exactly these (frames of other lengths
are never stored). A frame is its kind (head, tail, data and so on, as the four
`Check...` functions tell them apart) and, for a data frame, which packet and
part it carries and whether its share of the quaternion is good. `Check4Q` is
the conjunction of these shares; the floating-point arithmetic is left out.
`sizeof(imu_body)` is taken to be a multiple of 8, and plain `char` to be
unsigned as on the ARM targets: with a signed `char` the comparisons with 0xAA
never hold and no packet is received.

`ImuBus` adds the sender and the loss of frames. The sender is not in the
repository: packets of a head, the data frames and a four-byte tail follow from
what the receiver accepts. A data frame may look like a head or a tail
(`Noise`). `ImuSample` is what `GetIMU` promises: an atomic register whose
records are whole and checked, only get newer and become visible when the next
packet starts. The refinement mapping takes the record before the one being
received as the newest and the record before `fetch_pos` as the shown one.

### IMU handshake: `ImuHandshake`

What `ImuReceiver` takes as one step `Setup`: from `socket()` in `InitIMUCan` to
the loop of `IMUCanRecv`. One action is one system call, or one `read()` with
the code that handles its frame. The sender is external and sends key packets
and IMU packets frame by frame at any time, starting anywhere in a packet. The
socket is a queue with a filter: it takes what the filter lets through, and a new
filter leaves in the queue what is there, as the kernel does. So `GetKey` starts
with IMU frames sent between `bind` and the first filter, and `WaitImuReady` with
key frames. Frames may be lost on the bus or at a full queue. `tMode` is the
structure on the stack of `GetKey`, in units of four bytes, with `NoUnit` for what
was never written: when `read()` fails the loop ends and the key is taken from it
as it is. `row`, `missed` and `foreign` are history: they say what the loops have
seen, for `MissedBounded` and `KeyWhole`.

### CAN link: `CanLink`, `CanSetup`, `LinkRegister`

`CanLink` is `can_scoket2.c` with any number of processes that use it on one
device. A call is a script of exchanges (`Script`): one for a setter or getter,
three for `can_do_restart` and `InitIMUCan`, four for `main`. An exchange is
`get_link` or `set_link`: socket, request, answer, close, with every way each can
fail. `Proceed` says which results let a call go on. The kernel carries out a
request in `sendmsg`; the process hears of it later, and between any two steps the
device falls off the bus, restarts by its interval or is unplugged, and other
processes configure it. What the kernel accepts (`Accepts`: a bit timing only
while the device is down, a restart only in BUS_OFF with `restart_ms` zero, as the
comment of `can_do_restart` says) is external. `Drivers` is the choice of
attributes a device reports: with an attribute missing the getter returns -1,
except for the error counters (section 6). `Request` is the part of
`do_set_nl_link` that decides which attributes a request carries; their layout in
bytes (`addattr_l`, `addattr32`) is left out, the requests being far smaller than
the bound these test. A dump the kernel refuses leaves the process waiting
(`hung`), an old pointer may crash it (`dead`). `main` is told for one of its two
devices. `told` is what the caller gets: the result of the last exchange, or -1 when
`can_do_restart` did not come to its restart (`Result`).

`CanSetup` adds runs of `can-setup.cc`, whose netlink code is a copy of the
library's, and of `can_scoket3.c`, which uses libmnl. They share the device, and
the action `Grant`, with the processes of `CanLink`.

`LinkRegister` is what all of them may rely on: an exchange takes effect at most
once, at one moment between its start and its end, and a result other than -1 is
that of this moment. The refinement mapping names an exchange by its call and its
number, and `Effects` says what it is for in the caller's words: that an interval
of zero really turns the automatic restart off, for instance, or that an
acknowledged restart met a device that was in BUS_OFF at that moment, although
`can_do_restart` looked at its state two sockets earlier.

### Allocators: `LinearScan`, `BlockPool`, `IHeap`, `SafePools`

`LinearScan!Scan` is the search loop of both allocators, step by step as a
recursive function (`Loop`). `BlockPool` is the abstract pool: a block has one
holder, a request is refused only when all blocks are out, and a block comes back
exactly when it is out and undamaged. Clients damage blocks, several at once.

`IHeap` is `memalloc.cc`. The client is part of the model and external: it writes
into its blocks and past their end (`Write`, `WriteNuse`), frees them in any order
and twice. An entry is its `nuse` byte, its size and whether its guard bytes are as
`_malloc` left them. A write past the block meets the guard bytes, then the first
byte of the next entry, then that entry's `nuse`. From there on the next entry may
look used while it is free, or be given out twice (`breach`). A libc block is its
address relative to the small heap, so the effect of `s_iheap_max` and of blocks
below the heap is kept, and whether its header is sound. A second free of a libc
block reads a header that is libc's memory again: it may pass the tests (`Passes`),
and then libc is given the block twice and the model ends (`broken`). The history
variable `seen` records which entries were in use since an entry was last given out.

`SafePools` is the compiled part of `safe-malloc-free.c`. The loops of
`_malloc` end at `MaxLen` on a full list (their assertion is the loop body), and
the entry behind the list is used; what follows is undefined and the model
stops there (`Running`). Clients write past small blocks, over the next entry's
`res0` (`Overrun`) and flags (`OverrunFlags`, which sets `breach`), and over a magic
byte or the length of libc blocks (`Spoil`): with another length the last magic byte
is looked for in another place and anything may be found. `xptr_valid` keeps its
cached index in `cache`; for small blocks it is `xptr_valid_small`, which does not
look at the magic bytes.

Two assumptions on these writes: a byte that is written differs from the one it
replaces where the tests look at it, and nothing is written behind the heap or the
list. A write goes no further than the flags of the next entry, and after it clients
write no more past their blocks.

### WPA client: `WpaControl`, `WpaStation`

`WpaControl` is one request over the control socket, `wpa_client_send_sync_cmd`
(or the loop of `main`, which does the same and asserts success): the read that
throws one waiting datagram away, the send, and the wait for the first datagram
that comes. One action per system call, because the supplicant may answer
between any two. Nothing in a reply names its request, so the module counts:
`owed` requests without a read reply, `ready` replies in the socket, `late`
requests given up. Replies come in the order of the requests, hence the next
reply is the own one exactly when it is the only one owed. `wpa_ctrl_request`
and the supplicant are external: the socket does not block (`read` before a
request would otherwise never return on the first one), a request is given up
after a time limit, and the supplicant serves in order when it likes.

`WpaStation` is the library part of `wpa_client.c` (it stands under `#if 0` in
the repository). An operation is the sequence of its requests (`AddSteps`,
`RemoveSteps`, …), the answers it goes on with (`Wanted`) and what it returns
(`Verdict`); `at` is the request in progress. Requests and replies are queues
with contents, and the supplicant's networks are functions from settings to the
station they were made for, so a network set up half, or for two stations, can
be told apart. `WpaStation` implements `WpaControl` with the lengths of its
queues (`ImplementsControl`). Between two requests the phase is `idle`, as
between two operations. Closing a session leaves its requests with the
supplicant, which serves them without an answer. The supplicant is external: it
numbers networks one above the highest, may reject a setting, and connects and
drops enabled networks on its own (`Roam`). `unsent` is history: the ids whose
request `station_remove_all` could not send. Arguments are valid strings: the
tests for null and empty ones return before anything happens.

## 4. Runs

| Run | Instance | What it shows |
|---|---|---|
| `imu_receiver` | 2 slots of 2 frames, 2 readers, all frame kinds | type, lock ownership, ring bounds, no torn read, wrap only under the lock |
| `imu_live` | 2 slots of 1 frame, 2 readers | a waiting reader is served or the receiver returned holding the lock; the thread ends after exit |
| `imu_bus` | 3 slots of 2 frames, 6 packets, up to 3 losses | a record a reader gets is whole while few frames are lost (`FewLost`); with one loss the ring implements the latched register |
| `imu_handshake` | key packets of 3 frames, IMU packets of 3, queue of 2, 2 losses | the key is of one packet unless frames were lost or a read failed, a lost or foreign frame costs at most one packet, the handshake ends |
| `can_link` | 2 processes: the library's calls; `InitIMUCan`, `main` and the tools; 3 kinds of device | each exchange is atomic, `InitIMUCan` is true only with the device up at its bit rate, sockets are closed |
| `can_berr` | the same without the tools | violation: error counters read through an old pointer |
| `iheap` | 3 entries of 2 bytes, 3 libc positions, one below the heap | until a `nuse` byte is written over, the heap implements the pool, gives its entries out in turn and keeps them sound; high blocks can be freed |
| `safe_pools` | lists of 3, 2 libc addresses, 1 failed libc call | the list describes libc's blocks, no dead memory is read, the lists last as long as promised, pool refinement |
| `safe_pools_full` | the same | violation: the fourth small request of a list of three takes the entry behind it |
| `wpa_control` | up to 4 requests given up in a session | whose reply answers a request, for `main` and the library; a request ends; the socket recovers from any lag |
| `wpa_station` | 2 stations, 2 networks, up to 2 requests given up in a session; add, remove, remove all | what `station_add` reports is set up, no id is given out twice, what `remove_all` leaves |
| `wpa_connect` | 1 station, 2 networks, 1 request given up; add, connect, disconnect, priority, ping, scan | what a disconnect disables and reports while the supplicant roams, refinement of `WpaControl` |

Bounds. Two frames per record are the least with a part that is neither first
nor last in mixing two packets; two slots are the least with a wrap between two
records, three are used where a record may survive two more packets. Two
readers are needed for readers to block each other. Three losses are one less
than the four of `FewLost`, which has two thresholds: with `ImuFrames + 2` losses two
packets are spliced into one record, and with `2 * (MaxImu - 1)` losses so many
packets are taken behind one head that they reach, round the ring, the record
readers get. In the run both are four. On rings where the second is smaller (two
slots, or three slots of three frames) TLC finds that one exact too; the ring of the
code has 20 slots. `ImuSample` allows anything once two frames are
lost (`kept`), and with two losses the register is not implemented: a lost tail
and head join two packets, of which only the first is checked. Six packets
overwrite a ring of three twice.
Key packets of three frames have one that is neither first nor last; the two
frames the queue holds make the loops start in the middle of either kind of
packet, and packet numbers alternate, which tells the packet being read from the
next. Two losses let a broken packet be followed by a broken one.
Two processes are the least that interfere; one of them uses each setter that
changes something the other needs, the other makes the sequences of several
exchanges. Two bit timings tell the IMU's from another, and the devices are one
that reports everything, one without error counters and one without link data.
Three heap entries let the cursor be at, before and behind a free entry at the
same time; two data bytes give a block with and one without guard bytes.
Lists of three fill up with two libc blocks and one failure. The two addresses of
libc are interchangeable, so the runs of `SafePools` use their symmetry; they have no
liveness property.

The two stations of `wpa_station` have every setting and only the compulsory
ones, so one that is missing or left over shows. Two requests given up are one
more than the properties about `station_add` promise to survive: with two late
answers, an id and an "OK", it returns true before its last setting is made.
`OwnedOnce` therefore counts the ids given with at most one late answer: an id read
late may be that of a network that is gone by then, whose number is given anew. The
run does not allow enough late answers for that (it takes five with one network and
one value of an id). Two networks are the least that can be
confused; they fit the two values of an id (`IdRange`), which stand for the 256
of a `uint8_t`. With more networks than values `AddedWhole` and `OwnedOnce` fail,
which is why both ask for `IdsFit`. Requests a closed session left with the
supplicant count against the same bound, so the new session may be opened before
they are served. The
operations are split over two runs: those that switch networks on and those that
remove them.

Deadlock is checked for `WpaStation`. The heap stops when libc was given a block
twice. The IMU runs switch it off because the receiver really stops: it returns after `exit_imu_receive`, possibly with the
lock. `ImuHandshake` ends when the receiver's loop begins, which is where
`ImuReceiver` takes over, and in the CAN runs a process may hang or die and
`MaxLeak` bounds the sockets lost. `SafePools` stops when an assertion fails, and `WpaControl` when `main`
has ended.

Fairness (`LiveSpec`). Weak fairness of the receiver's own steps and of a reader
that holds the lock: the scheduler runs every thread. Weak fairness of a
frame's arrival and strong fairness of a frame that ends the current packet: a
sender that keeps sending ends every packet with a tail. Strong fairness of the
two lock acquisitions: a mutex that is freed again and again is eventually
given to a waiter (the receiver sleeps in `read()` after each unlock). A reader
need not call `GetIMU`, and `exit_imu_receive` need not happen. `WpaControl` is
weakly fair to the steps inside a request only: none of them waits but the last,
and `select` ends that wait. The supplicant need not answer and nobody need ask;
`Resync` states what it needs of them in its premise. `ImuHandshake` is weakly
fair to the sender, which sends periodically, to `read()` with a frame waiting,
and to `SetFilter`; losses are bounded and a failing `read()` or filter ends the
wait too. The CAN link has no liveness property: a library call may really hang.

## 5. Proofs

`ImuReceiver_proofs`: for every ring size, record size, set of readers and set
of frames. The inductive invariant is
`IInv == TypeOK /\ LockOwner /\ StoreInRing /\ NoTornRead`. `NoTornRead` alone is
not inductive: that no frame is stored while a reader copies needs `LockOwner`
(the reader owns the lock, so the receiver is not in a packet), and that a frame
is stored in a slot of the ring needs `StoreInRing`, which in turn needs to know
that the wrap test runs before the next frame. Each action has a lemma. The
action property `WrapUnderLock` follows from `IInv`: outside a packet
`store_pos` is below the end, so the wrap test behind the unlock does nothing.

The same module goes on with `ImuBus`. `PacketInv` says where the receiver is in a
packet: for some number `d` of packets sent since it took the head, `e` data frames
lost since and `n` records filled, its position follows from these and each packet
joined to the one before cost two losses (`At`); with `e = 0` what it stored is whole
(`Stored`). At a tail behind a full record either no data frame was lost or exactly
those of one packet and nothing was stored (`TailIs`): anything else takes
`ImuFrames + 2` losses. `RingInv` says that the record before the packet is whole once
there is one; that the packet does not come round to it is the second bound of
`FewLost` (`Reach`). `CopyInv` carries this over to what readers copy. For the
refinement, `StampInv` adds that the newest record is older than the packet being
sent. A step with at most one loss is then an `Accept` (a tail), a `Latch` (the lock
taken at a head), a `Serve` (a reader acquires the lock) or a stutter.

`ImuHandshake_proofs`: for every packet length, queue length and number of losses.
The heart of `HandshakeInv` is `Stream`: the frames of one id in the socket, and
behind them the one that is sent next, come in the order they were sent, and each
gap between them is paid for by frames that were lost. On it rests where a loop is
(`KeyLoop`, `ReadyLoop`): how many frames of the due packet it holds, how many units of
foreign frames among them, and how many were lost in between (`Holds`); with none of
these `tMode` holds the first frames of that packet, so at a full count it holds all
of it, which is `KeyWhole`. The last conjunct of a loop is the potential for
`MissedBounded`: the packets missed so far, and one more (`Debt`) while the loop is out
of step with the frames it reads, are never more than the frames lost and the
foreign ones read. A loop out of step pays its debt at the end of the packet it
misses, which `MissedBounded` alone does not say.

`LinearScan_proofs`: the loop ends at the first available entry of its range, or at
its end (`ScanCorrect`). `Loop` is a recursive function: `LoopSteps` shows that there
is one with its equation, and the entries the loop steps over are followed back from
the greatest entry for which the claim would fail, by the well-foundedness of `<`.

`IHeap_proofs`: type and entries, then that every step of the heap is a step of
`BlockPool` or a stutter, and `RoundRobin`; all but the types as long as no `nuse`
byte was written over (`breach`). The latter needs an invariant on the
history variable: all entries between an entry and the cursor, in the cyclic
order, have been seen. `HighBlocksInRange` is inductive with the types: the mark is
raised for a block above it and never lowered.

`SafePools_proofs`: for every list length and every set of addresses. The
inductive invariant is `IInv == TypeOK /\ ListDescribesLibc`: that libc never
hands out an address that is out says that a new entry of the list is the only
one with its address, hence that `xfree`, which erases the first entry it finds,
erases all there is. That the small list is a block pool holds step by step, until
the entry behind the list is taken or `breach` is set. `ReadsLiveMemory` then needs no fact about the cached index:
`xptr_valid` compares the entry before it trusts it. `ListSuffices` needs a
count, `CountInv`: the used entries are as many as the blocks libc has out plus
the requests it refused, and a search that ends behind the list has seen every
entry used.

`WpaControl_proofs`: for any number of requests given up. `OwnUnlessLate` is not
inductive alone: that the reply of a request is the only one owed follows from
`LagBounded`, `owed <= late` plus the request in progress, which therefore is
part of `IInv`. That `main` is never misled needs `MainNeverLate`: `main` has
given up a request only if its assertion has ended it.

`WpaStation_proofs`: for every set of stations, number of networks and ids and
number of requests given up. All of it rests on `SocketInv`: the requests of a closed
session come first, and as long as one is left the client has no reply (`QueueInv`);
what the client is owed is bounded by its late answers (`LagBounded`), as in
`WpaControl`. With it, each property has an invariant that follows its operation.
`AddInv`, for `station_add` in a session with at most one late answer: it either is in
step with the supplicant, or has the id of an earlier call and its own answer still
to come (`OneBehind`), which can only be while its first setting is made; the
settings before the request in progress are made (`Made`). That the network of such
an id is still as it was made needs `FreshInv`. `OwnedInv`: what the caller owns
exists, and neither a removal on the way, nor an id on its way to the client, nor the
operation in progress names it. `RemoveInv`: a network whose number
`station_remove_all` has passed is gone, or its removal is on the way, and no request
behind can bring the number back, unless its own request could not be sent. `DisconnectInv`: the network the status told was
connected during the call, and is still, or the supplicant has been without a
connection since (`Told`). `ImplementsControl` needs that a phase inside a request
belongs to an operation (`PhaseInv`).

`CanSetup_proofs`: for every set of processes, calls, command lines and devices.
`IInv == TypeOK /\ FdsBalanced`. The part of `TypeOK` that does the work is
`Place`: where a process is, its script has an exchange of the right kind there,
and only an exchange that was answered has a result. For `InitConfigured` the
invariant `Imu(c)` says how far the device is configured at each step of
`InitIMUCan` and in each phase of the exchange, unless `others` holds; it needs
that a request was granted whenever its result is 0.

The last part of this module shows that `CanSetup` implements `LinkRegister`. Opening a socket is
`Start`, the kernel's grant or the message about the device is `Take`, and
closing it is `End`; all other steps of an exchange stutter. The heart is that the
request an exchange sends has the effect its purpose names (`Wanted`), case by
case over the calls and their exchanges.

All constants are arbitrary within the named assumptions of the modules
(`ImuAssumption`, `BusAssumption`, `HandshakeAssumption`, `HeapAssumption`,
`PoolsAssumption`, `ControlAssumption`, `StationAssumption`, `CanAssumption`,
`CallAssumption`, `RunAssumption`). `BusAssumption` asks for a ring of two slots at least
(`MAX_IMU_NUM` is 20): with one, the record readers get is the one being written. The
last three say that the values that stand for "nothing" and
for "anything" (`None`, `Junk`) are none of the values proper.

Model-checked only: the liveness properties `ReaderServed`, `ExitEnds`,
`HandshakeEnds`, `RequestEnds` and `Resync`, which rest on fairness, and the
counterexamples to the two properties of section 6. That the bounds of `FewLost` are
exact is only known of the rings named in section 4.

## 6. Findings

`safe-malloc-free.c:102` and `:111`: the search loops have no body, so
`assert (i < MEM_BLOCKS_MAX_LEN);` below them is the body and only runs while
the loop condition holds. On a full list the loop ends with
`i == MEM_BLOCKS_MAX_LEN` and the entry behind the list is written. The run
`safe_pools_full` shows the shortest way, with `imemblock_list` (line 102): one small
request more than the list has entries, none of them freed. The list of libc blocks
has the same loop (line 111), and requests libc cannot serve fill its entries too,
as each keeps its entry; `ListSuffices` says how long both lists last.

`can_scoket2.c:241`: `parse_rtattr` clears `max` entries of a table of `max + 1`,
and `IFLA_CAN_MAX` is `IFLA_CAN_BERR_COUNTER`. When a device reports no error
counters the entry keeps what the stack held; `can_get_berr_counter` then copies
from that address and returns 0, or crashes, where its comment promises -1
(`can_scoket2.c:1276`). The run `can_berr` shows the call. `LinkRegister` lets this
getter return `Junk` in that case, so that everything else can be shown of the
code as it is.

## 7. Not modelled

- Within the modelled programs: the part of `safe-malloc-free.c` under `#if 0`; the
  monitor thread of the WPA client, which only prints, and the interface prefix of
  its requests; the benchmarks in the `main` functions; floating-point arithmetic
  of `Check4Q`; the byte layout of netlink messages; a `char` that is signed.
- `memalloc.c` keeps no state: it puts a header in front of each libc block, and
  what a second free finds there is up to libc.
- `decl.c`, `decl.cc`: macros that lay out arrays with a header, and a `main` that
  reads them back in straight-line code; the checks at the end of a scope print.
- `c-fs-list.c`: one thread, one recursion over a directory tree. What could go
  wrong there depends on lengths of names only.
- The shell and Python scripts are linear sequences of external tools (`wget`,
  `git`, REST calls, `mount`); what survives their interruption is decided by those
  tools and servers, of which the repository says nothing.
