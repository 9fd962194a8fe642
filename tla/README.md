# A formal model of binport

binport runs a tool from a project's toolbox on remote machines over SSH: it
hashes the tool, looks for the hash in a cache on the remote, uploads the file
if it is missing and executes it, on one host, on a fleet or repeatedly
(`watch`). It also builds toolboxes reproducibly from a lock, and moves them
around as archives, OCI layouts and registry images; it reaches hosts that only
another host can reach through helpers that run there, copies files and tunnels
TCP over them, and manages the hosts, keys and passwords all this needs.

This directory holds TLA+ models of those parts, the TLC configurations that
check them, and TLAPS proofs about each of them. Paths below such as
`cmd/watch.rs:150` are relative to `src/src/`; `README.md:NN` is the
repository's README.

    tlc -workers 2 -config MCRemoteCache.cfg MCRemoteCache    # one run
    tlapm RemoteCacheProofs.tla                               # one module of proofs

`PROJECT.json` lists every run, the source lines of every definition, the
hazards, and for every property a mutant: a wrong variant of one definition
(marked "Wrong variant" in the module) with which TLC finds the property
violated.

## 1. Inventory

| Component | State | Operations | Interacts with | What is hard | What makes it correct |
|---|---|---|---|---|---|
| Remote tool cache (`lib.rs`, `cmd/remote.rs`, `cmd/runtime.rs`, `ssh.rs:528-583`) | installed files by hash, temporaries, the upload shell, the local file | hash, probe, upload, execute, build | SSH channels, local toolbox | concurrent uploads, interruption anywhere, signals and traps, a rebuild meanwhile | an address holds what it names; who is told "there" finds it there; temporaries have owners |
| Fleet (`cmd/remote.rs:767-953`, `cmd/fleet.rs`) | shared jump connections, semaphore, tasks, counts | dial jumps, acquire, connect, run, join, summarise | SSH, cache, output | order of completion, panics, silent machines | no permit leaks, counts and exit code right |
| Fleet output (`ssh.rs:318-350`, `cmd/remote.rs:685-765,955-971`) | bounded channels, protocol line, line buffers | receive, forward, strip, print | fleet tasks | chunks cut anywhere, two streams, end before the last chunk | whole lines, in order, all of them, then the summary |
| Watch (`cmd/watch.rs`) | sessions, last snapshot, online, attempted, exit code | tick, connect, run, classify, emit, stop | SSH, shared jump | hosts that come and go, broken sessions, Ctrl-C | the events tell the whole story once; the exit code is that of the last snapshot |
| Lock and toolbox (`lockfile.rs`, `toolbox.rs`, `oci.rs`) | `Binport.lock`, toolbox, `toolbox.json`, archives, layouts | resolve, build, export, load, pack, unpack | the file system, other commands | no locks, multi-step writes, crashes, edits meanwhile | the manifest describes the files; a build follows its lock; leftovers obstruct nothing |
| Registry and blob cache (`registry.rs`) | tag, manifests and blobs at the registry, cached blobs, staging layouts | push, pull, login | registry, toolbox | requests lost with their effect, overlapping pushes and pulls, hard links | a tag is always complete; repeats succeed; what was pulled is whole |
| SSH connections (`ssh.rs`) | authenticated client, bastion flag | connect, authenticate, execute, relay | everything remote | order of authentication, one channel per bastion connection | the connection used is the one the destination asks for |
| Exec-hop (`hop.rs`, `bin/binport-hop.rs`) | framed requests, route of at most 4 hops, one process per leg with its stdin, stdout and channels | resolve the chain, dial, forward, feed, end | SSH, host configuration, credentials | announced lengths, errors without an end of input, order of ends, reads that hold a runtime | the command runs on the host that was asked for; what arrives is what was sent; it ends |
| Tunnel (`cmd/tunnel.rs`) | local connections, a session behind a lock | accept, open a channel or a helper, relay, reconnect | SSH, exec-hop | half-closed connections, several reconnections at once | each side gets all the other sent |
| Transfer (`cmd/transfer.rs`, `remote_command.rs`) | staging file, temporary at the destination | size, download, upload, local copy, directories | SSH, exec-hop | sources that change, leftovers | the destination is a version of the source or untouched |
| Host configuration (`host.rs`, `cmd/host.rs`) | `binport_config`, the `Include` line of `~/.ssh/config` | add, the wizard, remove | SSH resolution, keys | unlocked read-modify-write, also against the user | no host and no edit is lost |
| Keys, credentials (`auth.rs`, `cmd/auth.rs`) | key pairs, `authorized_keys`, stored passwords | setup, status, remove, `--password` | SSH, host configuration | several files on two machines, failures between them | what was said to be ready is; setup can be repeated |
| Bastions, diagnostics, catalog, Binfile, command line, install scripts | none of their own | formatting, parsing, probing | | | |

How they interact: every remote command connects (`NativeSsh`, over a shared
jump connection, a bastion session or an exec-hop) and then does what
`RemoteCache` describes. Fleet and watch start such tasks concurrently under
a semaphore; within one process the tasks share jump connections, the permits
and the output channel, and nothing else. Separate invocations share the remote
directories, the project directory and the local caches, without any lock.
`pull` ends in `unpack`, `pack` feeds `push`. An exec-hop finds its chain in the
managed configuration, its target passwords in the credentials, and opens the
entry host with the keys; `cp` and `tunnel` are its users here.

## 2. Modules

| Module | Models | Composed with |
|---|---|---|
| `RemoteCache` | one remote cache, its clients, their upload shells, the local file | refines `ContentStore` |
| `ContentStore` | abstract: addresses that are filled in one step, never emptied, and hold what they name | |
| `RemoteCacheProofs` | theorems about `RemoteCache` | |
| `Fleet` | one fleet, warm or doctor command | a running task is a client of `RemoteCache` |
| `FleetProofs` | theorems about `Fleet` | |
| `FleetOutput` | the output path of a fleet run | its tasks are those of `Fleet` |
| `FleetOutputProofs` | theorems about `FleetOutput` | |
| `Watch` | one watch command | |
| `WatchProofs` | theorems about `Watch` | |
| `Toolbox` | a project directory and six commands that write it | `unpack` is what `pull` ends in |
| `ToolboxProofs` | theorems about `Toolbox` | |
| `Registry` | push, pull, the registry and the blob cache | |
| `RegistryProofs` | theorems about `Registry` | |
| `ExecHop` | one `cp` of a file or one tunnelled connection, over a chain of helpers or none | its plain upload ends in the script of `RemoteCache`, with another destination |
| `ExecHopProofs` | theorems about `ExecHop` | |
| `HostConfig` | the managed hosts and `~/.ssh/config`, and the commands and the user that change them | |
| `Credentials` | keys, `authorized_keys` and passwords, and the commands on them | extends `HostConfig`; a wizard goes from one to the other |
| `CredentialsProofs` | theorems about `HostConfig` and `Credentials` together | |
| `MC*` | small instances for TLC | |

### RemoteCache

A file is a sequence of chunks, a chunk the version it was built from, and
SHA-256 an injection: an address *is* the content that was hashed. A client is
one invocation with a mode. `run` and `tty` stream the local file while they
upload (`NativeSsh::upload_file`); `fleet` and `warm` send what `fs::read`
returned. Its `phase` follows `run_remote`: `start`, `hashed`
(`toolbox_candidates`), `missed` or `execute` after the probe, `uploading`, and
the end. The upload has two actors, the feeder (`feed`) and the remote shell
(`sh`), whose states are the commands of the script in `lib.rs:111-117`: `cat`
runs, `eof` it has seen the end, `ready` after chmod, `exited` after mv. A fault
can hit between any two of them: a read error (the feeder sends EOF all the
same, `ssh.rs:557`), a lost connection, a failing command (the trap is cleared
before the exit, so the temporary stays), HUP/INT/TERM (the trap removes it),
SIGKILL. `binport build` truncates and rewrites the local file in place.

The code does *not* promise that a cached file is the hashed one: the file may be
rebuilt between hash and upload, and an interrupted upload is installed. The
history variable `suspect` marks exactly the addresses to which that happened,
and the properties say that there is no other way:

- `CommittedIsWhole`: an address that is not suspect holds what it names,
  through any interleaving of uploads, kills and reused process ids.
- `NoSilentCorruption`: without a rebuild, a wrong file has a client that
  reports a failure.
- `ReadyToRun`, `RanWhatWasHashed`: hit or uploaded means it can be executed,
  and what runs is what was hashed, with the same exception.
- `TempsAccountedFor`: a temporary has a live writer, or was left by a killed
  or failed shell.
- `ImplementsStore`: the protocol implements `ContentStore`; the refinement
  mapping forgets shells, feeders and temporaries.
- `ClientsFinish`: every invocation ends, whatever fails. The channel between
  feeder and SSH library is a step, not a queue: its capacity of 4 is left out.

### Fleet

What each machine is like (good, failing, refusing, silent, panicking) is chosen
in `Init`; the main task dials the jump hosts one by one, spawns a task per host
and joins them in the order they finish. `Acquire` and `Finish` take and drop
the permit, `JoinPanicked` is the `??` of `cmd/remote.rs:867`, which drops the
`JoinSet` and so aborts the rest. `SummaryIsRight` (exactly the hosts that had
to fail are counted, and the exit code agrees), `OthersAreJoined` (no permit
leaks, whichever way a task ends: silent hosts, if fewer than the permits, hold
up nobody else; the assumptions it needs, no silent jump host and no panic, are
real: the code has no timeouts there).

### FleetOutput

Texts are sequences of tokens and the network cuts them into messages anywhere.
A chunk on its way is a place in the text of its stream, so that it can be said
which part of the text it is, and where its neighbours are; the printer looks up
the tokens. `Forward` is one branch of the `select!` in `execute_stream`, or a turn
of one of its two last loops; `Relay` the same in the probe reader, with its
treatment of the protocol line in `Consume`. `Ends` is the end of the execution,
after which a task is "draining": first stdout, then stderr, then its own queue.
`Returns` and `Fails` are the two ways out, and `Leaves` says that the channels go
with the task. `Buffer` is the key of the printer's buffers. `printed` is a
sequence of tokens; `Closed` adds the newline that `println!` adds to a last
incomplete line. `LinesAreWhole`, `NothingIsLost`, `SummaryIsPrinted`.

### Watch

`Tick` is a tick of the ticker with the spawning of all tasks, `Connect` and
`Run` are `watch_target_once`, `JoinSnapshot` and `JoinError` the two arms of
the joining loop (`Kind` is its chain of conditions in the same order),
`EndIteration` what follows it, `Shutdown` the other branch of the `select!`.
`RunFails` is an error of `run_remote` over a session that is alive (an unknown
platform, a failed upload, a bootstrap that does not start; `cmd/watch.rs:298-303`).
The environment takes hosts down and up, breaks sessions and the shared jump
connection, and presses Ctrl-C, which kills the process until the handler is
installed. It may also make a machine silent (`way`): it accepts the connection
and then says nothing. No connect and no command has a timeout
(`ssh.rs:207-225, 929-949`), so `Connect` and `Run` are then not enabled, and the
tick waits (`Held`), as it does for a tool that does not end. `said` records what
the printed events said. `ReaderKnows`:
suppression of unchanged snapshots and repeated errors hides nothing.
`EventsAreNews`: and no event repeats or misnames. `ExitCodeIsOfLastSnapshot`,
`ReachableTargetsRecover`: whoever can be reached is reported again, unless the
shared connection is gone, the tick is held, or broken sessions, failed runs or
silences come again and again. `CtrlCStops`, with `Held` as its exception.

### Toolbox

Steps are system calls, or runs of them that no other process can tell apart. A
file's content is the version of its source; `Partial` is a file between
`fs::write`'s truncation and its write. The history variables say who has been
alone: `alone` (met no other writer of the toolbox), `steady` (met no edit),
`dirty` (the last writer failed, died or overlapped), `crossed` (the Binfile was
edited while `resolve` made a lock from it). The user edits sources and what the
Binfile lists. A build leaves the files of tools it no longer lists (`Describes`
says what a manifest then means), and `resolve` reads the Binfile twice
(`Hashed`, `Vouch`). `ManifestIsTrue`: what one command made on its own is
described by its manifest, whatever happened before. `BuildFollowsLock`: a build
that met nobody is what its lock promised and, unless `crossed`, what the
Binfile lists. `ExportsCanBeLoaded`, `InstallsAreNotObstructed`.

### Registry

The registry is external: digests to contents, and a tag that names the index
sent last; it may be immutable. Every request may fail with or without its
effect (`RequestFails`, `AnswerLost`; the single retry after a 401 and the
timeouts of the client end in the same two ways), and processes die. Pushes
follow `push_layout` (probe, HEAD, upload, manifest, tag last); pulls follow
`pull_layout` with the shared cache: a cached blob is verified or removed,
downloaded to a temporary and renamed, and hard-linked into the layout, so that
a `Link` *is* the file in the cache. `TagIsComplete`, `RepeatedPushSucceeds`,
`PulledBlobsAreWhole`, `PullsCanBeRepeated`. Assumed: the registry never
collects garbage, images are referred to by tag, a process id belongs to one
process at a time.

### ExecHop

One `cp` of a file, in any direction, or one connection of `tunnel`. The main
task is `main`: the size of a remote source, its download into the staging file,
the chain, the upload (`start`, `await`). `Resolve` is one turn of the loop of
`resolve_host_chain`, with its limit and its cycle check. Process 0 is the
client and process `i` is what runs on the `i`-th machine: a helper
(`binport-hop` reading a request, `Connect` is `run_relay` or `run_nested_exec`
up to the dialled connection), or the command at the `Tip`, which is the upload
shell or the `--connect` helper. A process has its stdin (`up`, `eof`), its
stdout (`down`), and a feeder that fills the stdin of the next one; a link holds
`Cap` chunks, and a process whose output is not taken stops forwarding
(`Blocked`). Only one feeder counts: that of the last helper, to which the
header of an upload announced the length (`Counts`, `ShortStdin`). A connection
may break anywhere with anything in flight (`LinkBreaks`), a dial may be
refused, a local or remote read and any command of the upload shell may fail, and
so may the reads and writes of the two TCP connections of a tunnel
(`LocalReadFails`, `ReceiveFails`, `ServiceFails`). The source may be rewritten at
any time, with another length or the same: `seen` holds the size of each of its
versions, and `read` the version the command met when it asked for the size, at
each chunk and at the end. `Exit` waits for `PendingRead`,
because a tokio runtime waits for its blocking reads. A chain of length 0 is a
plain SSH copy.

- `DestinationIsWhole`: what cp installs is one version of the source: it has its
  size, and every chunk was read from it. Two exceptions are the code's. A source
  that changes between the moment its size is asked and the end of the reading may
  be installed torn and reported as copied; where a length is announced, that
  length is right, which is all the protocol compares. And the last leg breaking is
  the end for `cat`; the command then reports an error.
- `EveryLegKnowsItsHost`: requests popped hop by hop agree with the
  configuration, and the command runs on the host that was asked for.
- `EndOfStreamMeansAll`: no end of input before the last chunk, in either
  direction, through any number of legs that end in any order; except that a
  service which closes first gets nothing more, which is finding 3.
- `StagingIsRemoved`: with the one path that forgets it (`cmd/transfer.rs:349`).
- `HangsAreKnown`: everything ends, provided dials do (no connect has a timeout),
  with two exceptions of the code: a feeder of the client or of a relay that fails
  sends no end, so that the helper waits for the announced rest, or for a TCP client
  that is gone; a helper on its way out is held by its pending read while the TCP
  client is silent.

### HostConfig and Credentials

The commands are reads, decisions and renames, with nothing locked. `HostConfig`
has `host::add` (`ReadMain`, `ReadManaged`, `Rename`, `EnsureInclude`), the
wizard, which does it for a new jump host first, `host::remove`, and the user
who edits `~/.ssh/config`. `Credentials` adds `ensure_managed_key` (`CheckPair`
to `FillPublic`: two files, the second created empty), the probe and the
password, `install_key_command` (`Grep`, `Append`), the verification,
`remove_key_command` (`Filter`, `Move`), the removal of the pair, and the
credential store of bastions and exec-hops (`Truncate`, `Store`, `Check`,
`Drop`) with `--password`. A stored password belongs to a `Secret`: that of an
exec-hop is kept under its alias, that of a bastion under the bastion's address,
port and user (`auth.rs:14-29`), so that all aliases behind it share it. Which one
it is, a client learns when it looks the alias up (`secret`). Every alias leads to
one remote account, so that everything that can be shared is. A client may die
between any two steps or fail to write; a failed write of a temporary has the effect of a death before the
rename.

What must hold between concurrent commands is relative to what they saw, so
history variables record it: `meant` is what the hosts would be had every change
been made to the newest file, `overlapped` the aliases renamed while another
client was about to rename, `mine` and `clobbered` the same for the user's file;
`torn` the aliases whose pair was left between its files, `disturbed` the
clients that had company on their alias (or its jump host), `endangered` the
aliases whose key came into `authorized_keys` while a removal was about to move
its earlier read: it was appended then, or another removal, as late, brought it
back. A jump host behind a jump host is refused (`Nested`), as
`connect_jump_destination` does; an exec-hop whose entry host has a jump host of
its own ends the same way here, although the code would go on with it, and is no
instance of these runs.

- `ChangesAreKept`: no host and no edit is lost, except in those two overlaps.
- `JumpsAreSavedFirst`: no stop of the wizard leaves a route into nothing.
- `ReadyMeansReachable`: after "ready" the host can be used until somebody works
  on it, whatever is done to other aliases of the account, with the exceptions
  `endangered` and `TakenAway`: another alias behind the same bastion was removed,
  or a save for it has truncated the password and has not written it.
- `PairsAreWhole`, `SetupsSucceed`: who can tear a pair, and that a setup with
  the right password heals everything else.
- `StoredPasswordsWorked`: the stored password of a bastion has opened it, whichever
  alias it was given for; that of an exec-hop has opened its host, or is one given to
  `--password`, or one that a setup is still trying or died with.

`TypeOK` of `Fleet`, `FleetOutput`, `Watch` and `Toolbox` is not in their
configurations, in favour of properties that say more; section 5 proves them.

## 3. Runs

| Run | Instance | Shows |
|---|---|---|
| `cache` | 2 clients (tty, fleet), 2 versions of 2 chunks, 2 pids, 1 rebuild, all faults; symmetry on versions and pids | the safety properties of the cache |
| `cache_store` | the same clients, 1 version of 1 chunk, no symmetry | refinement of `ContentStore`, termination |
| `cache_interrupted` | run and warm, only a read error, no rebuild | **violation** of `NoPartialContent` |
| `fleet` | 3 hosts, 2 permits, 2 jump hosts, 2 routings, all kinds of machine | the fleet properties |
| `fleet_output` | 2 hosts, channels of 1, messages of up to 3 tokens | the output properties |
| `watch` | 2 hosts, all four routes, unlimited and finite options, tools that end and a tool that does not, silent machines, failing runs and all other faults | the watch properties |
| `toolbox` | 2 tools, 2 processes, 3 commands, 1 edit (of a source or the Binfile), 1 crash; symmetry on tools, versions, processes | the toolbox properties |
| `registry` | 2 images that share a manifest, 2 processes, 3 commands, 2 faults; symmetry on processes | the registry properties |
| `registry_repeated` | 1 pull of an image with a repeated digest | **violation** of `PulledIsWhole` |
| `hop` | 4 exec-hop hosts in a chain or a cycle, 3 hops, files of 0 or 2 chunks, 2 edits (3 versions of the source), links of 1 chunk, 10 copies and 4 tunnels, all faults | the properties of copies and tunnels |
| `hop_half_close` | one tunnel over one hop, no fault | **violation** of `HalfClosePreserved` |
| `hosts` | 3 commands at once in 23 combinations, 2 aliases, 2 bastions, 5 initial configurations, 1 edit, deaths and failed writes | the properties of hosts, keys and passwords |

Why the bounds are enough to be interesting:

- *cache*: two chunks make partial files that are not empty, two versions make
  mixed ones; two clients with different feeders meet at one address or at two,
  with the same pid one after the other. The proofs lift these bounds.
- *fleet*: three hosts and two permits make one wait; two hosts share a jump host.
- *fleet_output*: capacity 1 (8 in the code) makes the senders block; messages
  of 1 to 3 tokens cut every line, the protocol line included, at every place.
- *watch*: the variables of a host do not depend on the number of ticks;
  `iteration` stops counting where the options do not look any more (`Counted`),
  so an unlimited watch is checked over unlimited ticks. Two snapshots, one with
  status 0 and no output, give every event kind.
- *toolbox*, *registry*: three commands by two processes allow one that fails or
  dies, one that overlaps it, and one that comes after both. One edit and one
  crash separate every pair of steps of a command.
- *hop*: three hops (4 in the code) have a first, a middle and a last helper,
  and four hosts in a row are one too many; links of one chunk block every leg;
  two chunks can be cut, announced wrongly or come from two versions; two edits make
  a file grow and shrink again, or change twice at the same length.
- *hosts*: two aliases are a host and its jump host, or two names of one
  account, or each the jump host of the other, which is refused, or two hosts behind one
  bastion, or behind different ones; of three commands two overlap and one comes
  before, between or after.
  The user edits only while a command that reads or rewrites `~/.ssh/config` has
  yet to do so: other edits change nothing the model reads.

Deadlock is not checked: every command ends, or waits for a machine that is
silent or a tick that the bounds take away. That it does end is said by the
liveness properties, `ClientsFinish`, `OthersAreJoined`, `SummaryIsPrinted`,
`CtrlCStops` and `HangsAreKnown`.

Fairness. Each task, feeder or remote shell is weakly fair: tokio polls a woken
task and the remote kernel schedules a process. No fault and nothing the
environment does is fair, with one exception: in `FleetOutput` a host that has
something to say says it, or its connection breaks. In `Watch`, `Work` is weakly
fair, but not enabled on a silent machine or while the tool does not end; nothing
makes either of them go on. `Shutdown` is strongly fair: it is a branch of a `select!` that is entered again and again,
where a tick may be ready too, and tokio starts with a random branch. `Wait`,
which stands for time, needs none. In `ExecHop`, `Progress` is weakly fair: it
collects the steps of tasks that are scheduled, of live connections, of a
service and a TCP client that finish.

## 4. What the runs found

1. `cache_interrupted`: README.md:771-773 promises that an interrupted transfer
   never replaces the destination with partial content. A failed local read in
   `upload_file` ends the feed with a regular EOF, so the script installs the
   truncated file under the hash of the complete one. The client reports the
   error; all later clients get a hit.
2. `registry_repeated`: README.md:474-476 says that pull verifies every
   descriptor. With a repeated digest, `materialize` truncates the verified blob.
3. `hop_half_close`: README.md:204-206 says that a tunnel through helpers preserves
   half-close. `run_connect` (`bin/binport-hop.rs:354`) returns when the service
   has shut down its side, and drops what the client still sends.

Also met. These are in the models, as exceptions a property names or as
behaviour of an action, without a run of their own:

- Ctrl-C does not end a watch whose tool does not end, nor one that waits for a
  silent machine, to connect (`ssh.rs:207-225, 929-949`) or in a command
  (`cmd/watch.rs:150`; README.md:717 says it exits cleanly): the exception `Held` of
  `CtrlCStops`. The same silence keeps every other host from being reported.
- A silent jump host holds a whole fleet before any of its hosts is started: the
  jump hosts are dialled one after the other, without a timeout
  (`cmd/fleet.rs:95`). `OthersAreJoined` assumes that there is none.
- A host whose run fails at every tick, over a session that is alive, stays OFFLINE
  for ever although it can be reached (`cmd/watch.rs:298-303`).
- Hosts behind a shared jump connection that broke are never reached again
  (`cmd/watch.rs:293`; README.md:703-705 says failed targets are retried):
  `ReachableTargetsRecover` excepts them.
- `load` and `unpack` remove the old toolbox before the rename
  (`toolbox.rs:173-176`, `oci.rs:240`; README.md:474-476 says atomically).
- A file rebuilt between its hash and its upload is installed under the old
  hash (`cmd/runtime.rs:115`, the reason for `suspect`).
- `resolve` hashes the Binfile a second time after it has hashed the sources
  (`lockfile.rs:128`); edited in between, the lock vouches for a Binfile it was
  not made from, and `build` accepts it (`crossed`).
- A build keeps the files of tools that the Binfile no longer lists, and `export`
  sends them along (`toolbox.rs:38`, `toolbox.rs:188`).
- `pack` puts `Binport.lock` in the layout without comparing it with
  `toolbox.json` (`oci.rs:73`).
- A feeder of an exec-hop upload that fails, or whose file shrank, leaves the
  chain waiting for ever (`ssh.rs:602`, `hop.rs:646`); a file that grew is
  installed at its announced size, and the client may report an error. A feeder of a
  tunnel whose local read fails leaves it waiting in the same way (`hop.rs:814`).
- A source rewritten while cp reads it, with the length it had, is installed as a
  mixture of two versions and reported as copied (`hop.rs:646`, `ssh.rs:600-611`,
  `cmd/transfer.rs:359-360` compare lengths; a plain copy compares nothing).
- An exec-hop download that breaks leaves its staging file (`cmd/transfer.rs:349`;
  README.md:773 says it is removed).
- The upload script clears its trap before it exits, so that a failing
  command leaves the temporary.
- `ensure_include` writes back the `~/.ssh/config` it read before the rename
  of `binport_config`, and loses an edit made since (`host.rs:356`), although
  README.md:212-214 says "Existing handwritten host blocks are never overwritten": the
  exception `clobbered` of `ChangesAreKept`.
- `auth remove` of one alias behind a bastion removes the password of all of them
  (`cmd/auth.rs:289`, `auth.rs:14-24`), and a save for one that dies or fails after
  the truncation leaves all of them without.
- A death between the two files of a pair leaves half a pair, which setup
  refuses for ever, or an empty public key, which it installs (`auth.rs:169`).
- A removal can undo the key another alias of the account has just appended, or
  bring back one that another removal took out (`auth.rs:210`). The second case
  came out of the proof of `ReadyMeansReachable`: it takes six clients, more than
  the run has. The key that came back may let a setup say "ready", and the removal
  that read in between then takes it away again.
- A probe with the agent or any identity in `~/.ssh` makes setup and status say
  "ready" (`cmd/auth.rs:17`), so that a managed key may never be installed.
- `--password` on an exec-hop is stored before it is tried (`hop.rs:592`).
- A setup behind a jump host that has no key yet fails after it has asked for the
  password (the outcome `jump`).

## 5. Proofs

Each module of proofs holds for every value of the constants that satisfies the
assumptions of the modules it extends: any number of clients, hosts, processes or
legs, any bounds on faults, edits and commands. Each proves an invariant that is
inductive, which was first checked by TLC on the instance of section 3, and
derives the properties from it. The invariant has a conjunct for everything that
a property takes for granted; a lemma per action shows that the action keeps it,
and frame lemmas that it leaves alone what belongs to others.

| Module | Theorem | States, after `Spec =>` |
|---|---|---|
| `RemoteCacheProofs` | `TypeCorrect` | `[]TypeOK` |
| | `CommittedFilesAreWhole` | `[]CommittedIsWhole` |
| | `CorruptionIsNeverSilent` | `[]NoSilentCorruption` |
| | `ToolIsThere` | `[]ReadyToRun` |
| | `ClientsRunWhatTheyHashed` | `[]RanWhatWasHashed` |
| | `TemporariesHaveOwners` | `[]TempsAccountedFor` |
| | `CacheImplementsStore` | `ImplementsStore`, the refinement |
| `FleetProofs` | `FleetTypeCorrect` | `[]TypeOK` |
| | `PermitsNeverLeak` | `[]PermitsAccounted` |
| | `SummaryAlwaysRight` | `[]SummaryIsRight` |
| `FleetOutputProofs` | `OutputTypeCorrect` | `[]TypeOK` |
| | `LinesAlwaysWhole` | `[]LinesAreWhole` |
| | `NothingEverLost` | `[]NothingIsLost` |
| `WatchProofs` | `WatchTypeCorrect` | `[]TypeOK` |
| | `ReaderAlwaysKnows` | `[]ReaderKnows` |
| | `ExitCodeAlwaysOfLastSnapshot` | `[]ExitCodeIsOfLastSnapshot` |
| | `EventsAreAlwaysNews` | `EventsAreNews`, an action property |
| `ToolboxProofs` | `ToolboxTypeCorrect` | `[]TypeOK` |
| | `ManifestAlwaysTrue` | `[]ManifestIsTrue` |
| | `ExportsCanAlwaysBeLoaded` | `[]ExportsCanBeLoaded` |
| | `BuildsFollowLock` | `[]BuildFollowsLock` |
| | `InstallsNeverObstructed` | `[]InstallsAreNotObstructed` |
| `RegistryProofs` | `RegistryTypeCorrect` | `[]TypeOK` |
| | `TagAlwaysComplete` | `[]TagIsComplete` |
| | `RepeatedPushAlwaysSucceeds` | `[]RepeatedPushSucceeds` |
| | `PulledBlobsAlwaysWhole` | `[]PulledBlobsAreWhole`, if `LinksAreSafe` |
| | `PullsCanAlwaysBeRepeated` | `[]PullsCanBeRepeated`, if `LinksAreSafe` |
| `ExecHopProofs` | `ExecHopTypeCorrect` | `[]TypeOK` |
| | `EveryLegAlwaysKnowsItsHost` | `[]EveryLegKnowsItsHost` |
| | `StagingAlwaysRemoved` | `[]StagingIsRemoved` |
| | `DestinationAlwaysWhole` | `[]DestinationIsWhole` |
| | `EndOfStreamAlwaysMeansAll` | `[]EndOfStreamMeansAll` |
| `CredentialsProofs` | `CredentialsTypeCorrect` | `[]TypeOK` |
| | `ChangesAlwaysKept` | `[]ChangesAreKept` |
| | `PairsAlwaysWhole` | `[]PairsAreWhole` |
| | `StoredPasswordsAlwaysWorked` | `[]StoredPasswordsWorked` |
| | `JumpsAlwaysSavedFirst` | `[]JumpsAreSavedFirst`, if `OwnEntries` and `KnownJumps` |
| | `SetupsAlwaysSucceed` | `[]SetupsSucceed` |
| | `ReadyAlwaysMeansReachable` | `[]ReadyMeansReachable`, if `EntriesAreDirect` |

Four hypotheses are not assumptions of a model. They say where the code keeps
the promise, and what happens elsewhere is known:

- `LinksAreSafe`: layouts are copies, or no image lists a blob twice. Finding 2
  is what happens otherwise.
- `OwnEntries`: nobody else saves the wizard's host with the very entry the wizard
  is about to save. Else the other one may save it while the jump host is still
  missing, and the property cannot tell the two apart.
- `KnownJumps`: a host that was there at the start with the entry of a wizard had its
  jump host.
- `EntriesAreDirect`: the entry host of a wizard's exec-hop is no bastion or exec-hop,
  neither in the file nor in what another command saves. The wizard offers an exec-hop
  behind a host it has just logged in to, and sets that host up with a key; an entry
  host of another kind would be set up with a stored password.

The instances of the runs `registry` and `hosts` satisfy all four.

**RemoteCache.** `CommittedIsWhole` is not inductive: nothing in it says what a
shell that is about to move a temporary holds. `CacheInv`, at the end of
`RemoteCache`, adds what does. `ClientShape` ties a client's phase to its upload.
`ShellShape` says that a live shell has a temporary of its own, because no two
live shells have the same pid: this is where `$$` in the name earns its keep.
`UploadIsFaithful` says that, unless the address is suspect, the temporary is a
prefix of the hashed content while the feeder reads it, and all of it after EOF.
`UploadInstalls` says that status 0 means a filled address. `DoubtIsEarned` says
that only rebuilds and broken feeds make an address suspect. The refinement maps
every step of a client to one step of the store or a stutter and uses
`ReadyToRun` for `Done` and `UploadIsFaithful` for `Fill`.

**Fleet.** `CountInv` says that the two counts are the cardinalities of the
joined hosts that had to fail and that had not; `TaskInv`, that a task's result
follows from its own host and the shared jump connections, which `JumpInv` fixes
before any task exists. So the order of joining cannot matter.
`PermitsAccounted` adds the free permits to the tasks that hold one; it is also
what types `permits`.

**FleetOutput.** While the printer is open, `Flow` holds. `PlaceInv` says that
whatever flies between the network and the printer lies after what the printer
has of its stream (`At`) and before what has arrived (`pos`); `OrderInv`, that the
chunks of a stream are in the order of the text, within each of the three queues
and from one queue to the next; `GapInv`, that each begins where another one or the
printer ends, and that the last one ends at `pos` unless the task failed. It
follows that the chunk the printer takes is the next part of the text (`HeadIsNext`),
so that what is printed and buffered stays the text so far, `TextInv`. A failure
throws away the chunks of a stream from some place on, never one before a chunk
that is kept: those are in the printer's queue, and `OrderInv` says that all of
that queue comes before. `ProtocolInv` says that the protocol line has taken
everything up to the first newline of stderr, and that nothing of stderr is ahead
of it. `TaskInv`: who has returned has seen the end of both streams and left
nothing. When the printer closes nothing flies any more, so `GapInv` puts it at the
end of every stream whose task returned; that is `Over`, which stays.

**Watch.** `RecordInv` says what the four remembered values of a host tell of
its past, above all that the last event was about `last` as long as the host is
online; `AnswerInv`, that a joined answer agrees with the record; `CodeInv`, that
between ticks the exit code is that of the last one. `EventsAreNews` follows from
`RecordInv` before the step.

**Toolbox.** The commands overlap, die and leave anything behind, so nothing can
be said of the toolbox as such. `SoundInv` says that it is what its manifest
describes if no process is now changing it and the last one that did was alone;
`AloneInv`, that a process that is alone is the only writer; `WriterInv`,
`BuildInv` and `ExportInv` say how far such a process has come, file by file. `LockInv` says that a lock is about the tools
it lists, unless the Binfile was edited while it was made.

**Registry.** `PushInv` says that a push has published what it has left behind:
the manifests it no longer has to do, with their blobs, and the blobs of the
entries it no longer has to do in the manifest in hand. `TagInv` is the goal in
the same terms. The case that matters is `PushProbe`, which skips everything when
the tag names the image: it relies on `TagInv` for the blobs. `SettledInv` says
that a push of what the tag names stays at its probe wherever the tag cannot be
moved. For pulls, `LayoutShape` says which files the layout has at each step
(`Expected`), hence that no file is put into it twice, hence that no hard link is
truncated; `BlobShape`, that a cached blob is only ever replaced by a whole one or
by none, which other pulls' links survive. `CacheInv` says that a bad manifest in
the cache is one being written, and `AloneShape` that a pull without company
finds what it has seen. The hypothesis is used once, in `LookKeeps`.

**ExecHop.** `ChainInv` follows the requests: `RouteInv` says that the route is the
way from the entry host to the host asked for, `LegInv` that process `i` is
where the route wants it and holds the request for the rest, `PairInv` that a
helper is gone only after the next one, unless a connection broke. `CountedInv`
and `PlainInv` are the conservation laws of an upload: what was announced is
installed, in flight or still to be counted; what was sent is installed or in
flight. `VersionInv` ties `read` and `seen` to the versions of the source, and
`FileInv` says that what is staged, and what the command was told, is all of one
version unless the source changed under it (`Told`, `Fine`). Together with the
conservation laws they give `DestinationIsWhole`. `StreamInv` is the
same for the two streams of a tunnel, with the chunks on all links counted as one
finite set, so that a step which moves a chunk keeps the sum. `OutcomeInv` says
that a good exit of a leg means good exits of all behind it, `LostInv` who notices
a broken connection. `AbsenceAssumption` says only that the result of a command
and its absence differ.

**HostConfig and Credentials.** `KeptInv` says that what a client read and is about
to write back is out of date only where `overlapped` or `clobbered` say so.
`PairInv` says that whoever works on an alias that is not torn is alone there
(`Apart`) and what the two files are at each step (`PairOf`). `PasswordInv` names
the client that tried a wrong password. `RouteInv` says that as soon as a wizard's
host is in the file, or in what somebody is about to rename into its place, its
jump host is in all of these, or was removed or overwritten by another client.
`KeyInv` says that a key belongs to one alias, wherever it is written down, and that
new keys are new. With it `MoveInv` says what a removal is about to take out of
`authorized_keys`: its own key, and keys of `endangered` aliases. `CompanyInv` says
that of two clients on one way the one that is in the way is known, so that
`disturbed` misses nobody, and `SetupInv` follows a setup that nobody disturbed
step by step (`Progress`): the key it holds is in its file, then in
`authorized_keys`, and the password it stored is still the one it was given.
`ReadyInv` says that nobody works on what is ready or on the way to it; `KindInv`
and `DirectInv`, that a client at work takes its alias, and the bastion whose
password it handles, for what they are.

### Only model-checked

- All liveness (`ClientsFinish`, `OthersAreJoined`, `SummaryIsPrinted`,
  `ReachableTargetsRecover`, `CtrlCStops`, `HangsAreKnown`): it needs fairness and
  ENABLED, which the prover cannot treat. Every invariant and every action
  property of a passing run is proved.

## 6. What is not modelled

- *SSH itself*: parsing of the configuration, host keys, the protocol.
  Connections exist or fail; which identities and passwords open a host is in
  `Credentials`.
- *Text*: the layout of tables, JSON and events, parsing of Binfile, catalog and
  configuration, the user names of bastion presets.
- *Read-only commands*: doctor's checks, network, environment and profile
  probes, plan.
- *Permissions*: file modes and umask, except that an installed file is executable.
- *Windows*: `replace_file` removes the target before it renames; only the Unix
  rename is modelled.
- *Not yet*: the tunnel over a plain connection with its shared session, copies
  of directories, TTY requests through helpers, downloads of artifacts and of
  helpers (see the plan).

## 7. Plan

Done, in this order: `RemoteCache`, `ContentStore` and proofs; `Fleet`;
`FleetOutput`; `Watch`; `Toolbox`; `Registry` and proofs; `ExecHop`;
`HostConfig`; `Credentials`; the proofs about `Fleet`, `Watch`, `Credentials`,
`Toolbox`, `ExecHop` and `FleetOutput`, and those about pulls and repeated pushes.

To come, most important first:

1. `Tunnel`: reconnection of the shared session by several connections at once.
2. The artifact cache of `fetch_source` and the helper cache, as users of
   what `Registry` says of cached files.
