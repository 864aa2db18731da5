# Podplane in TLA+

This directory holds TLA+ specifications of parts of Podplane, the TLC
configurations that check them on small instances, and proofs, checked by
TLAPS, of what matters most. It is meant to be read beside the Go code: every
definition of a module is translated from the lines that `PROJECT.json` names
under `map`, and names follow the code where TLA+ allows it.

Podplane is a command line tool (`src/internal/cmd`) that creates Kubernetes
clusters in a cloud or in a virtual machine on the user's laptop. Most of its
state that outlives one call is on the laptop: files, keyring entries, PID
files, processes that go on when the command ends, and caches that several
commands share without a lock. That is where steps meet in an order nobody
wrote a test for, and where these specifications begin.

## The system

| Part | State | Operations | Interacts with | What is hard |
| --- | --- | --- | --- | --- |
| Local secret store, `internal/fakevault` | one encrypted file per secret, one key per cluster in the keyring, a cache of keys | KV-v2 read, write, check-and-set, archive, restore, destroy; delete a cluster; unlock | keyring, file system, HTTP handlers of the local server | kills between the key and the file; failures half-way through a delete; check-and-set under concurrency |
| Local Vault authentication, `fakevault/handler.go` | tokens in memory | log in with a Kubernetes token, authorise | API server of the VM | expiry between two checks, restarts, one token table for all clusters |
| Local server, `internal/local/server.go`, `internal/pid` | a background process, its PID file, Vault socket, ports | start, find, stop, kill | every `local` command | no lock between commands; stale PID files; a server that is slow to start or to die |
| Local clusters, `internal/local/start.go`, `stop.go`, `delete.go` | VM image, user-data, `cluster.jsonc`, `mutable.env`, state file, fake Nstance store, buckets | start, stop, delete | local server, Vault, QEMU, guest agent | twenty-five steps, each of which may be the last one |
| Local S3, `internal/s3fake` | buckets, multipart uploads | create, upload part, copy part, complete, abort, list | Netsy and registry in the VM | parts replaced while an upload is stored, uploads aborted meanwhile, kills, pages of a listing that changes |
| Local OIDC provider, `internal/oidcserver` | authorization codes, keys | authorize, token, keys | browsers, `podplane login` | codes used once, expiry |
| Login and tokens, `internal/oidc`, `internal/clusterauth`, `internal/config` | tokens in the keyring, config file | login, refresh, logout, switch cluster | OIDC providers, kubectl | refresh races, a callback racing a time-out, partial writes |
| Dependencies, `internal/deps`, `internal/filecache`, `pkg/seeds` | cache directory, OCI layout, Git mirrors | verify, download, import | registries, other processes | concurrent workers, locks per repository, torn downloads, releases that change meanwhile |
| Bundles, `internal/bundle` | staging directory, archives, a lock | bundle, import | caches of two machines | kills at any step, resuming, a bundle that changes under an import |
| OpenTofu, `internal/tfexec`, `tfdeps`, `tfstate`, `tfprovider` | child processes, cache of modules and providers, remote state, cloud secrets | init, apply, destroy; provider resources | cloud APIs | signals, create-if-absent, overlapping applies, lost answers |
| Cloud clusters, `internal/clustercreate`, `clusterdelete`, `clustersleep` | configuration files, remote state | create, delete, sleep, wake | OpenTofu, Nstance | order of steps, what a failure leaves, instances that are launched meanwhile |
| Deploying, `internal/deploy`, `components`, `secrets`, `kubectl` | objects in the cluster, kubeconfig | deploy, install, update | API server | read-modify-write, conflicts |
| Progress displays, `internal/tui` | rows of tasks, a channel of events | events, keys, the end | the goroutines of commands | the order of ends, a full channel, who goes on reading |
| Generation and validation, `tfgen`, `clusterconfig`, `userdata`, `netsyseed` | none | render | | pure functions |

`PROJECT.json` lists every part under `components` with what is modelled of
it, and under `hazards` what can go wrong at which line and which property
would show it.

What makes each part correct:

- secret store: a secret that was stored can be read until it is destroyed,
  whatever is killed or fails; versions move on with every write;
  check-and-set is atomic; every request is answered;
- local server: at most one serves; a server that serves can be found and
  stopped; a PID file that names a live process names the one that serves;
  every command ends;
- local cluster: what an interrupted command leaves does not prevent the next
  one from succeeding; identity, keys and seed of a VM do not change during
  its life; a delete leaves nothing; a user who tries again succeeds.  The code
  keeps this but for writes and removals that are cut at four places, which the
  properties name and the table of disagreements lists;
- S3: an upload is there until it is stored or aborted; an object is made of
  exactly the parts that were named; a listing misses nothing that was there
  all the time;
- authentication: a workload is served the secrets of its own service account
  and cluster, and nothing once its JWT has expired;
- OIDC and logins: a login spends its own code, its token verifies, it comes to
  an end; stored tokens belong to the subject they are stored under and are
  accepted by the issuer, unless a renewal made them void and its outcome was
  lost;
- secrets and kubeconfig of a cluster: a prerequisite is there and written
  once; a context leads to its cluster;
- caches and bundles: what a manifest marks is there, whatever failed or was
  killed, but for what overlapping runs transferred at the same time or a kill
  tore; a run that nothing disturbs repairs what others left, or fails;
- OpenTofu: a call that returns leaves no process behind, and an engine that is
  interrupted saves its state, unless it had to be killed;
- clouds: one key per cluster, recorded as it is; a first snapshot that fits
  the key, is never replaced, and joins no data that was there when its token
  was signed; state in a bucket that is private and ours; a
  delete that destroys nothing under running instances;
- displays: what is shown and returned is what happened, and nobody who reports
  progress is blocked by it.


## The plan

One module per component, its configurations beside it. The order is that of
importance to users of local clusters: first what may lose their secrets, then
what may lose their clusters, then the rest.

| # | Module | Part | State of the work |
| --- | --- | --- | --- |
| 1 | `VaultKV`, `FakeVault`, `FakeVaultProofs` | secret store; `VaultKV` is the abstract store that `FakeVault` implements | modelled, checked, proved |
| 2 | `LocalServer`, `LocalServerProofs` | background server and PID file | modelled, checked, proved |
| 3 | `LocalCluster`, `LocalClusterProofs`, `LocalClusterSafety` | start, stop, delete | modelled, checked, proved |
| 4 | `Uploads`, `S3Fake`, `S3FakeProofs` | multipart uploads; `Uploads` is what `S3Fake` implements | modelled, checked, proved |
| 5 | `VaultAuth`, `OidcServer`, `OidcLogin`, `Credentials`, `RequiredSecret`, `KubeContext`, `CloudBootstrap`; `MCIdentity` and `IdentityProofs` join them | who may do what: tokens of the local Vault, logins, stored tokens, secrets and kubeconfig of a running cluster, keys of a new one; `OidcLogin` EXTENDS `OidcServer` | modelled, checked, proved |
| 6 | `S3Listing`, `ImageMirror`, `ArtifactCache`, `DepsRelease`, `Bundles`, `ProgressDisplay`; `MCOperations` and `OperationsProofs` join them with `LocalServer` | what commands do: listings, caches, downloads, machines without a network, displays | modelled, checked, proved |
| 7 | `TofuCache`, `StateBucket`, `EngineProcess`, `ClusterDelete`; `MCStacks` and `StacksProofs` join them | clusters in clouds | modelled, checked, proved |
| 8 | `MCEnds` | what must come to an end, of five of the parts | checked |

What would come next: the API server of a local cluster that follows its CA, so
that a rotated CA and `VaultAuth` meet; `clustersleep`; and a composition of
`TofuCache` with `EngineProcess`, in which an interrupted upgrade leaves a
stack that the next command meets.

## How to read the modules

- A `CONSTANT` with the comment "bound" limits how long TLC explores and stands
  for nothing in the code; the other constants are sets of names, switches for
  what the environment may do (`Faults`, `Crashes`, `Signals`, `Interrupts`,
  `SlowExit`, `Cuts`), or limits that the code itself has (`MaxPolls`).
- A definition whose name begins with `Mutant` is not part of a specification.
  It is a definition of the code with a plausible mistake, to be put into the
  place of that definition to see that a property notices it. `PROJECT.json`
  lists at least one for every property under `mutants`; the others break
  further conjuncts of an umbrella property in the same way.
- A property that an umbrella name joins (`LoginsSound == SpendsOwnCode /\
  TokensVerify`) has at least one mutant; the conjuncts are the properties to
  read, each with a comment of its own.
- `MCOperations`, `MCStacks`, `MCIdentity` and `MCEnds` check several parts in
  one run. The parts share no variables. An initial state chooses the `part`
  that moves, the others stay at their first initial state, so TLC explores the
  union of the parts' states and not their product. The bounds of every part
  are constants of the sum, with values in its configuration; in `MCEnds`,
  about which nothing is proved, they are in the INSTANCE statements.
- `disturbed`, `overlapped` and `meddled` are history variables: whether
  anything else acted on what a command works with while it ran. Properties of
  what a command leaves are for those that were not disturbed, after any
  history of those that were.
- One action is one stretch of code between two points at which another process
  may act or this one may be killed: an effect on the disk, the keyring, a
  process or a peer. Reads and decisions before an effect that nobody else can
  disturb belong to its action.

### FakeVault, VaultKV

`FakeVault` models `FileStore` and the HTTP handlers that call it.

| Code | Model |
| --- | --- |
| files under `<root>/<cluster>/fakevault` | `files`: for a cluster and a path, the version, the archived flag, the key it is sealed with, and the value |
| keyring entry of a cluster | `keyring`, a number; a random key is the next number |
| `FileStore.keys`, `FileStore.mu` | `cache`, `mu` |
| a request being served | a slot of `Reqs` with `pc`, `req`, local variables `got`, response `res` |
| the process of the server | `up`; `Crash` loses `cache`, `mu` and the slots, `Restart` begins anew |

Requests that need the mutex once and change one file are one action
(`SetArchived`, `DeleteSecret`, `ListSecrets`, `Unlock`). Those with more than
one effect are split: `SetSecret` loads or makes the key, `WriteFile` renames
the file into place; `DeleteCluster` removes `RemoveEntry` by `RemoveEntry`,
then the key (`KeyringDelete`), then its cached copy (`ForgetKey`). Reads and
writes end with `ReportVersion`, a second call to the store. Each can fail
where the code returns an error, on either side of the effect where the code
cannot tell (`writeFileAtomic` renames, then syncs the directory). Encryption
is modelled by what it does (`Decrypts`): a payload can be opened with the key
that sealed it and with no other.

`VaultKV` is the store that the interface promises: a map of versioned secrets
without keys, files, mutex or process. The refinement `KV` maps a secret that
the keyring cannot decrypt to a version that `VaultKV` never has.

### LocalServer

Server processes are numbered in the order they are spawned, and their numbers
serve as PIDs. A server goes through the stages of `newLocalServerCommand`,
`NewServer` and `Stop`: `load`, `check` (the PID file it finds), `bind` (the
ingress port, the only fixed one), `socket` (the Vault socket), `truncate`,
`write` (its PID file), `serving`, `drain`, `released`, `closed`, `unlinked`;
it may be `dying` (killed, not yet gone) and is `dead` in the end. A command is
a slot of `Cmds` that steps through what `local server`, `status`, `start`,
`stop`, `delete` and `local server -q` do with the server. `held` is the PID
that a process has read into its `pid.File`, which may be out of date.

`NotRunning` is the part of `IsRunning` that matters: it removes the PID file
by its path, on the strength of `held`. That is why `Discoverable` holds for
one command at a time only.

`Patient` restricts the user to one who waits while a server comes up;
`SlowExit` allows a process to survive SIGKILL for ten seconds.

### LocalCluster

The model follows one cluster. What a command makes bears the number of the
command: an instance ID, a key, a server process with its random ports. The
twenty-five steps of `Start` are one action each, in the order of `start.go`;
`Stop` and `Delete` likewise. `Fail` ends a command at any step, after any of the effects
before. `Cut` is a write that was begun and not ended (`Torn`, or user-data
without ID). A delete may be cut within a directory, too, because
`os.RemoveAll` unlinks one file after the other: the data of Netsy may be left
in part (`RemoveBuckets`), the tenant goes before the halves of its key pair
(`RemoveTenant`, `RemoveKeys`), and of an instance either `instance.json` or
what is pending may go first (`RemoveInstances`, `Unlink`). An instance without
its `instance.json` is `orphaned`: every later delete skips it. `RemoveVM` and
`RemoveData` stay one step each, because whatever they leave is removed by the
next delete and written again by the next start of a new VM. `unmended` is a
history variable: which of three things a cut has done that the code does not
mend by itself - lost the ID of a guest (until its image is removed), left a
private half without its public one (until the pair is made or removed again),
orphaned an instance. The guest registers with fake Nstance once (`Register`) and takes
over the settings staged for it (`Deliver`).

| Code | Model |
| --- | --- |
| VM directory, QEMU, its PID file, guest | `vm` |
| user-data, `cluster.jsonc`, `mutable.env`, state file | `files` |
| workload CA key, component secrets | `vault` |
| directory of fake Nstance | `nstance`: key pair, tenant, instances (`none`, `configured`, `registered`, `orphaned`), settings staged for them |
| Netsy bucket | `bucket`: the seed it was made from, whether Flux has its Git secret |
| local server | `server`: the number of the one that runs, or 0 |

A start that finds the guest there goes on to make it use the server of now:
`AwaitServices` waits for the services of a new VM, `ConfigureForwarder` tells
the guest agent where the HTTPS forwarder leads (`forward`, which an old server
leaves behind).

Simplifications that a reader should know: the first boot of the guest up to
what it reads from user-data is one step with the start of QEMU; the time
limits of the waits are longer than what the guest has left to do (`Timeout`
needs a guest that can neither register nor take over settings); ports of a
new server differ from those of the one before; a QEMU process without a PID
file is forgotten when a delete has removed its image; `LocalServer` models how
the server is found, here it runs or it does not.

### Uploads, S3Fake, S3Listing

`S3Fake` models the backend that wraps gofakes3 for the bucket of the registry
(`BucketHandler`).

| Code | Model |
| --- | --- |
| directory of an upload, with `upload.json` | `status`, `object` |
| `NNNNN.part` | `parts`: the contents of each part; its ETag is its contents |
| objects of the bucket | `objects`; those that a store has begun and not finished are in `torn` |
| `multipartMu` | `mu` |
| a request being served | `req`: its step, the upload and the part it works on, the parts it named |

The handlers hold the mutex, so that only those with several effects are split:
`CompleteMultipartUpload` checks the parts, stores the object, and then removes
the directory; `AbortMultipartUpload` and a removal that cannot rename take one
file after the other. `CopyPart` is `multipartCopyHandler`, which opens its
source before it waits for the mutex; what it copies is what was there when it
opened it. `Restart` may come between any two steps, and in the middle of a
store. gofakes3 itself is external: it stores an object in one go or tears it.

`Uploads` is what clients may rely on, without requests, mutex or process.
`ended` is a history variable of both: which uploads were stored or aborted.

`S3Listing` is a client that turns the pages of a listing while entries come
and go. The three listings of the code are the same algorithm on a sorted list
except for how uploads resume after the marker (`UploadsAfter`). Entries are
numbered in the order of the listing.

### VaultAuth

| Code | Model |
| --- | --- |
| `tokens`, the table of the handler | `tokens`: JWT, cluster, role, end of the token |
| signing keys and issuer of a cluster's API server | `gen` of a cluster; a JWT bears the generation that signed it |
| a request between its two authentications | a slot with the entry that it found |

`LoginFetchKeys` and `LoginIssue` are the halves of `serveLogin` around the
fetch of the keys; `CheckRequest` and `Serve` are `ServeHTTP` and `authorize`.
Time is a clock of three ticks, an hour is two of them. Paths are sequences of
segments: those of a workload, of another account, and of another cluster,
and those that `path.Clean` would change.

### OidcServer, OidcLogin, Credentials

`OidcServer` has the key pair and its file, which may be torn, and the codes;
`OidcLogin` EXTENDS it by logins that share one call-back port, and by tabs:
URLs with a `state` that the browser may open again at any time.
`Credentials` is the config file and the keyring as commands and kubectl hooks
use them. A process reads all of the file when it starts and writes all of it
back. `live` are the refresh tokens that the issuer still accepts. The issuer
may rotate the token of a renewal although its answer is lost, comes too late
or cannot be parsed; and the file or the keyring may refuse what was received.
Either way the renewal has failed for `ResolveToken`, which goes on to a login
(`Browse`, `NotStored`), and the old entry stays. `lost` is a history variable:
the refresh tokens that became void like that, or because a kill came between
the rotation and the storing. `StoredRefreshIsLive` excepts those tokens, and
those whose successor is about to be stored in their place (`Unsaved`), and no
others.

### ImageMirror, ArtifactCache, DepsRelease, Bundles

`ImageMirror` is one repository of the mirror: blobs, `index.json`, and the
goroutines that download with their semaphores (`AcquireHost`, `AcquireSlot`,
`LockRepo`) and read, truncate and write the index. `ArtifactCache` has names
and inodes, because overlapping commands rename and remove files that others
are writing to. `DepsRelease` is the level above: four manifests, their marks,
and files. A transfer begins (`BeginTransfer`) and ends (`Transferred`) in two
steps. Between them another command may transfer the same file, through the
same `.tmp` name, or an image into the same repository, through the same
`index.json`. The two have met then, and each file they met over may be left
whole or not, and may still be reported and marked by both (`met`, `broken`).
An `index.json` that two writers or a kill have left unreadable (`torn`) makes
every later download of an image of that repository fail. `spoiled` is a
history variable: the files to which one of the two has happened, until they
are whole again with nobody at work on them. `Bundles` stages, archives and imports what
`DepsRelease` has made; a bundle may be cut or changed on its way.

### CloudBootstrap, TofuCache, StateBucket, EngineProcess, ClusterDelete

`CloudBootstrap` is the provider's resources in three secret backends: two
create a secret together with its value, that of Google in two calls; an apply
may fail on either side of each call, so that it does not see the answer. A
cluster may begin to write below the prefix of the snapshot at any time
(`DataAppears`), also between the second look at the prefix (`seed.go:226`) and
the upload (`seed.go:238`): the component secrets are made in between, and the
upload is conditional on its own object only. Data that appears there is not
seen, so `SeedNeverReplaced` says of an apply that publishes a snapshot that the
prefix was empty when it had signed the token (`data`, a history variable);
`NeverBesideData`, which says more, is among the disagreements below.
`TofuCache` is the cache in which modules, providers and the lock file have
different life times, shared by stacks of different releases. `StateBucket`
takes a bucket through creation, `hardenS3` and its tags. `EngineProcess` is
one call of `InitApply`, `Destroy` or `OutputJSON`: the steps of `runProcess`
with the goroutine of `cmd.Wait`, the reader of the terminal, the context that
signals and deadlines cancel, and the deferred calls in their order. The engine
is external: it locks the state, holds what it has made until it saves it,
exits at once when it is interrupted twice, and may hang; its plugins may keep
its output open. One window is not hidden: a signal that is caught after the
result has been decided, and before `stop` is called, is lost, and an `init`
that went well is followed by its `apply`; `told` is therefore set only at the
steps that still look at the context (`Heeds`). `ClusterDelete` runs
beside Nstance, which is external: `Reconcile` reads a config, `Launch` and
`Stop` act on what was read however old it is.

### RequiredSecret, KubeContext

`RequiredSecret` has one key of a provider and any number of commands, which
encrypt with a key of the operator that may be changed before the answer;
`applied` counts, for each command, the writes that were carried out for it.
`KubeContext` has the three maps of a kubeconfig; names are sequences of parts
because the code joins names with hyphens, and what collides is a matter of
the parts.

### ProgressDisplay

The worker goroutine, the channel, the reader that the loop starts once for
each message (`reader`), and the loop, which handles events, the end of the
work and the end of the channel in any order. `kind` is the display: that of
tasks drops any event when the channel is full, that of downloads only
progress, and its senders give up when the display has exited.

## What is checked

`pass` means that TLC explores every reachable state of the instance without an
error. The times are minutes at most on two cores.

| Run | Instance | Shows |
| --- | --- | --- |
| `vault_safety` | 2 requests, 1 cluster, 2 paths, 2 values, 2 writes, 2 keys, failures, kills | `Decryptable`, `SealedAgainstCurrent`, `VersionIdentifiesValue`, and that the store implements `VaultKV` |
| `server_concurrent` | 2 commands at a time, 2 server processes, everything may fail | `PublishedServes`, `EnsuredHasStarted` |
| `server_commands_end` | 2 commands, fair | `CommandsEnd` |
| `cluster_crashes` | 4 commands one after the other, 2 failures anywhere, writes and removals may be cut | identity, keys, seed, delete |
| `cluster_two` | 2 commands at a time, 1 failure | `SecretsKept` |
| `s3_uploads` | 2 requests, 2 uploads of 2 parts to one object | `ImplementsUploads`, `NamedPartsStored`, `TornCanBeStored`, `TypeOK` |
| `operations` | `MCOperations`: listing of 5 entries; 4 images in 2 sessions; 2 fetchers; 2 releases; 2 bundlers for 2 platforms; displays of 2 items; 1 command at a time with 4 server processes | `PagesComplete`, `ImagesKept`, `UndisturbedServes`, `DownloadsSound`, `BundlesSound`, `DisplayTrue`, `Discoverable` |
| `stacks` | `MCStacks`: 2 shards, 2 instances, 2 changes of sizes, a delete and its repetition; 2 commands on a stack, 2 releases; 2 runs on a bucket, 3 in all; an engine with 2 plugins | `DeleteSound`, `StacksWork`, `BucketSound` |
| `identity` | `MCIdentity`: 2 clusters of 2 generations; 2 logins; 2 processes and 4 subjects; 3 commands on a secret; 2 commands on a kubeconfig; 2 applies, 3 in all | `WorkloadsServed`, `LoginsSound`, `CredentialsHold`, `PrerequisitesHold`, `ConfiguredWorks`, `BootstrapSound` |
| `ends` | `MCEnds`: 2 requests; 2 logins; 4 images; the display of 1 item; 4 commands with 2 failures, writes whole (`Cuts <- FALSE`: a guest whose ID was cut is never ready again); all fair | `RequestsAnswered`, `LoginEnds`, `DownloadEnds`, `RetriesSucceed` |

Why the bounds are enough. Two requests, or two commands, show every conflict
of two actors: nothing in these parts waits for two others at once. Two paths
make a cluster deletion that is half done; two values and two writes make a
write that goes unseen. Two keys are a key and the one after a deletion. Four
server processes are one that is found, one that loses the race for the port,
one that is left stale and one that replaces it. Four commands with two
failures are a first start that fails, a second that fails elsewhere, and two
more that meet what both have left; `DeletedLeavesNothing` needs at most two
failed starts and a delete. Two uploads to one object are one that is stored and
one that tears the object afterwards; a body and an empty part are two ETags.
Five entries are three pages, and two uploads to one object are a marker with
a successor of the same object. In the sums, two of a kind are one that is at
work and one that gets in its way, and a third run is one that finds what both
have left: two images of one tag contend for one entry of the index, two
releases are the one that was fetched and the one that came out meanwhile
(images of both share one repository; the image of an add-on and the image of
the VM stand for those that are selected and those that everybody needs), two
keys or generations the one that was read and the one that replaced it. Two
shards are one that has been scaled and one that has not.
In every run the bounds leave the interesting steps
enabled: the mutants of `PROJECT.json`, each a mistake that takes several steps
to do harm, are found by the same configurations.

The configurations of the four sums, and those of others that say so, do not
check for deadlock: when the runs, commands or keys of the bounds are used up,
or a diligent user has a cluster that is ready, nothing is left to do. That
nobody waits for ever is what `ends` and `server_commands_end` are for.

### Disagreements between the code and what it says

These runs end with a counterexample to something that a comment or a test of
the repository says. `PROJECT.json` quotes it.

| Run | Property | The shortest story |
| --- | --- | --- |
| `server_lost` | `Discoverable` | a slow `local start` removes the PID file of a server that a fast one has just started |
| `cluster_key_pair` | `KeyPairMatches` | two starts store halves of two key pairs |

The models have more of these. They are stated as properties, which TLC
violates when they replace the properties of a configuration. Those of a part
of a sum are reached through its instance (`Server!NoPanic`). Where images or
targets have to be other ones, the assumption of the sum that excludes them
(`ImagesApart`, `TargetsApart`) has to be left out:

| Property | In place of those of | What the code says | What it does |
| --- | --- | --- | --- |
| `CasReportsItsVersion` | `FakeVaultSafety.cfg` | `fakevault/handler_test.go:605` expects the answer to a write to carry the version it made | looks the version up in a second call to the store, after another writer |
| `FluxAuthConfigured` | `LocalClusterCrashes.cfg` | `cmd/local_start.go:365` "applies the local Flux Git CA Secret for platform and agentic seeded clusters" | a first start times out; the second never sets up Flux |
| `NoPanic` (`Server!NoPanic`) | `Operations.cfg` | `pid/running.go:25` "If the process is not running, remove the PID file and then the PID" | panics when the PID file has disappeared since it was read |
| `KillNeedsNoServer` (`Server!...`) | `Operations.cfg` | `local/server.go:160` "ServerKill stops the local server if it is running and removes the PID file" | is an error after a crash of the server, and leaves the PID file |
| `CleanedAfterExit` | `LocalServerConcurrent.cfg` | `pid/kill.go:33` "Process is still running after 10 seconds" | tests `i > 9` in `range 10`, which is never true |
| `CleanupSparesVMs` (`Server!...`) | `Operations.cfg` with two clusters | `local/stop.go:47` "Stop the local server background process if this is the last running VM" | stops the server whatever VMs run |
| `SeedRecorded` | `LocalClusterCrashes.cfg` | `docs/reference/cli/commands/local-start.md:33`: the selected seed is recorded in `cluster.jsonc` | a failed start has filled the bucket, the next one records another seed and keeps the bucket |
| `IdentityKept` without `unmended` | `LocalClusterCrashes.cfg` | `local/start.go:627` "returns the instance ID from the existing VM's user-data" | a write of user-data that is cut loses the ID of a registered guest |
| `VMKnown` | `LocalClusterCrashes.cfg` | `vm/interface.go:68` "Running checks if a VM is currently running" | QEMU runs, and its PID file was never written |
| `SeededBeforeCreated` without `Torn` | `LocalClusterCrashes.cfg` | `local/netsy_seed.go:42` "Preserve any existing local state", of a bucket dir that is not empty | what a cut seed, or a removal that was killed, has left counts as data, and a VM is made on it |
| `KeyPairMatches` without `unmended` | `LocalClusterCrashes.cfg` | `local/nstance_config.go:128` "returns the stable Kubernetes service-account key pair" | a killed delete leaves the private half alone; the next start is cut between its two writes and leaves its public half beside it |
| `DeletedLeavesNothing` without `unmended` | `LocalClusterCrashes.cfg` | `local/delete.go:97` "removes fake Nstance tenant, cluster, and instance records for this local cluster" | a killed delete has removed `instance.json` and not the rest; every later delete skips the directory and succeeds |
| `NoEmptyParts` | `S3FakeUploads.cfg` | `s3fake.go:123` "supplies the UploadPartCopy operation"; otherwise such a request is a bodyless UploadPart | does just that when the source is not there or the copy fails: the part is replaced by an empty one |
| `UploadsComplete` | `Operations.cfg` | `s3fake.go:317` "returns persisted in-progress uploads" | leaves out the uploads to an object whose upload ended the last page and was removed since |
| `VerifiedOnReturn` (`Artifact!...`) | `Operations.cfg` | `filecache/download.go:23` "downloads a file from a url to a path and verifies its checksum" | two downloads to one path write to the same `.tmp` name: the one renames what the other is still writing |
| `FlaggedIsThere` (`Release!...`) without `spoiled` | `Operations.cfg` | `deps/vmconfig_manifest.go:162` "marks one vmconfig artifact entry as present in the local cache" | two downloads to one `.tmp` name leave half a file in its place, and both mark it; two that put images into one repository lose entries of its `index.json` |
| `SeedReturned` (`Release!...`) without `spoiled` | `Operations.cfg` | `deps/seeds_cache.go:169` "returns a cached seed snapshot" | looks only whether the path exists: half a file that two downloads have left is returned |
| `NeverBesideData` (`Cloud!...`) | `Identity.cfg` | `tfprovider/seed.go:241` "never overwrite live state" | a cluster begins to write below the prefix after the second look and before the upload, which does not look again |
| `LocalAndRemoteApart` (`Kube!...`) | `Identity.cfg` with a remote cluster named `local-x` | `kubectl/configure.go:16` "so they don't collide with remote clusters" | the prefix is part of a legal cluster ID: the two share their entries |
| `LogoutForgets` (`Creds!...`) | `Identity.cfg` | `cmd/logout.go:37` "Removes both the metadata stored in the config file and the tokens stored in the OS keyring for every (sub, cluster) pair" | the pairs are those of the config file: tokens whose metadata was lost by overlapping writers, or by an earlier logout that the keyring refused, stay |
| `MarkedIsCached` (`Mirror!...`) | `Operations.cfg` with an image pinned by the digest of an index and no tag | `deps/components_zot.go:214` "checks local indexes and required blobs for an image's tag and digest" | records the index in `index.json` and looks there for the manifest of the platform: such an image is never found in the cache |

Smaller ones, seen in the same models: between the lock file and `main.tf` of
an upgrade there is a stack of two releases, which the next command that
upgrades repairs and no other one notices (`TofuCache`); a delete that failed
after OpenTofu had destroyed everything finds no outputs when it is run again,
and fails without the second look that would offer to terminate what is left
(`ClusterDelete`); after the
switch to plain output the reader that the display had started takes one
more event, which is not shown (`PlainMissesOne` allows it); and a bundle
that is resumed is of the releases of its first attempt, whatever has come out
since (`ReportedBundles` asks only that its platforms agree).

### Fairness

- `FakeVault`: strong fairness for entering the store, because `sync.Mutex`
  hands the lock over to a waiter after a millisecond (its starvation mode);
  weak fairness for what a request does while it holds the mutex. A kill needs
  no fairness: `RequestsAnswered` counts a request that died with its server
  as over.
- `LocalServer`: weak fairness for each server process and each command, which
  the operating system schedules; none for crashes and signals.
- `LocalCluster`: weak fairness for the steps of a command and for the guest
  agent, which polls; and a user who does not give up: with `Diligent`, a
  cluster that is not ready is stopped and started again. Nothing is fair about
  failures, of which a run has at most `MaxFaults`.
- `OidcLogin`: weak fairness for the steps of a login, which are goroutines
  and requests with time limits; none for tabs and restarts.
- `ImageMirror`: weak fairness for each goroutine and for the end of the
  session; a semaphore is taken by anyone who waits for it, in any order.
- `ProgressDisplay`: weak fairness for the loop, the reader and who drains the
  channel; strong fairness for sending, because the Go runtime queues those
  who wait for a channel. The loop includes the key that ends a display which
  waits for one: that the user presses it in the end is assumed.

## What is proved

Every theorem holds for all values of the constants that satisfy the named
assumptions of its module, so for all values of the bounds too.

| Module | Theorem | States |
| --- | --- | --- |
| `FakeVaultProofs` | `TypeCorrect` | `Spec => []TypeOK` |
| | `AlwaysDecryptable` | `Spec => []Decryptable` |
| | `CompareAndSetAtomic` | `Spec => []SealedAgainstCurrent` |
| | `VersionsIdentifyValues` | `Spec => VersionIdentifiesValue` |
| | `Refinement` | `Spec => ImplementsKV`: `FakeVault` implements `VaultKV` |
| `LocalServerProofs` | `TypeCorrect` | `Spec => []TypeOK` |
| | `ServesAsPublished` | `Spec => []PublishedServes` |
| | `EnsuredStarted` | `Spec => []EnsuredHasStarted` |
| `LocalClusterProofs` | `TypeCorrect` | `Spec => []TypeOK` |
| | `SecretsNeverChange` | `Spec => SecretsKept` |
| `S3FakeProofs` | `UploadsAreKept` | `Spec => ImplementsUploads`: `S3Fake` implements `Uploads` |
| | `TornIsNotLost` | `Spec => []TornCanBeStored` |
| | `StoredAsNamed` | `Spec => NamedPartsStored` |
| | `TypeCorrect` | `Spec => []TypeOK` |
| `LocalClusterSafety` | `IdentityIsKept`, `DiskAlwaysHasItsCA`, `AlwaysSeededBeforeCreated`, `KeyPairAlwaysMatches`, `DeleteLeavesNothing` | `Spec => []` of the property of the same sense, if there is one command at a time |
| `IdentityProofs` | `WorkloadsServedAlways` | `Auth!Spec => WorkloadsServed` |
| | `LoginsAreSound` | `Oidc!Spec => []LoginsSound` |
| | `CredentialsAlwaysHold` | `Creds!Spec => []CredentialsHold` |
| | `PrerequisitesAlwaysHold` | `Spec => []PrerequisitesHold`, of `RequiredSecret` |
| | `ConfigurationsWork` | `Kube!Spec => []ConfiguredWorks` |
| | `BootstrapIsSound` | `Cloud!Spec => BootstrapSound` |
| `OperationsProofs` | `ListingTypeCorrect`, `PagesAreComplete` | `Spec => []TypeOK`, `Spec => []PagesComplete`, of `S3Listing` |
| | `ImagesAreKept` | `Mirror!Spec => ImagesKept` |
| | `ArtifactsServed` | `Artifact!Spec => []UndisturbedServes` |
| | `DownloadsAreSound` | `Release!Spec => []DownloadsSound` |
| | `DisplaysAreTrue` | `Display!Spec => []DisplayTrue` |
| | `BundlesAreSound` | `Bundles!Spec => []BundlesSound` |
| | `ServersAreFound` | `Server!Spec => []Discoverable`, if there is one command at a time |
| `StacksProofs` | `DeleteIsSound` | `Spec => []DeleteSound`, of `ClusterDelete` |
| | `CacheAlwaysWorks`, `EngineIsSound`, `StacksAlwaysWork` | `PartsSpec => []StacksWork`, from the two parts that it joins |
| | `BucketIsSafe` | `State!Spec => [](State!StateIsSafe /\ State!MadeIsHardened)` |
| | `BucketIsSound` | `State!Spec => BucketSound`, if `~Repeatable` |
| the last three | `PartsBehave` | the `PartsSpec` of the sum implies the specification of each part |
| | `PartsTypeCorrect` | `PartsSpec => []PartsTypeOK` |

`PartsBehave` is what makes a theorem about a part one about the run that
checks it: a step of the sum is a step of one part and leaves the variables of
the others as they are. `PartsTypeCorrect` (in `MCOperations`, where the parts
are many, of the part that moves) follows from it and from the types
in the invariants of the parts; bounds on counters, which no other proof needs,
are conjuncts of their own.

### What is assumed

An assumption is named in the module that declares the constants, and TLC
evaluates it in every run of that module. Apart from bounds being naturals and
special values being no ordinary ones:

- `OperationsAssumption`: bundles are asked for with at least one platform, and
  with those there are, because `Create` refuses others; a command is not a
  server process.
- `ImagesApart`: a tag names one image for each platform, or is pinned to one
  index for each; a pinned image has a tag. The last is a restriction on
  Podplane's own component lists and not on users. It is needed: an image that
  is pinned and has no tag is the last disagreement in the table above, and two
  platforms of one tag with one digest would share an entry of the list that
  belongs to both.
- `TargetsApart`: the names of targets keep their entries in the kubeconfig
  apart. A remote cluster named `local-x` does not (see above).
- `~Repeatable`, of `BucketIsSound` only: the cloud says who has made a bucket.
  In `us-east-1` S3 answers a second creation with success, so that Podplane
  cannot tell. `BucketIsSafe` holds there too.
- One command at a time, of `ServersAreFound` and `LocalClusterSafety` only:
  for two there are the counterexamples of `server_lost` and
  `cluster_key_pair`.

### FakeVault

Assumed: `ConstantsAssumption` (bounds are naturals, there is a value, `NoReq`
is not a request) and `NoFileAssumption` (`NoFile` is not a file).

`Decryptable` is not inductive: a write has chosen its key before it renames
the file, and in between the key might be deleted or replaced. The invariant
`IInv` therefore says who may be where. `MutexHeld`: exactly the holder of the
mutex is between `SetSecret` and `WriteFile`, or inside `DeleteCluster`.
`KeysFresh`: no key in the keyring is one that is still to be made.
`CacheCoherent`: a cached key is the one in the keyring, except for the
cluster whose key is being forgotten. `FilesKeyed`: the key of every file is a
real key. `SealedWithKey`: the key that a write has chosen is the one in the
keyring. `SealedAgainstCurrent`: the version it was checked against is still
current. `ForgottenEmpty`: a cluster whose key is being forgotten has no
files. With these, each action preserves `Decryptable`: `WriteFile` because of
`SealedWithKey`, `KeyringDelete` because the directory is empty, and every
other action because it leaves the files or the keys alone. `Refinement` and
`VersionsIdentifyValues` follow from a lemma, `FileSteps`, that lists what a
step may do to one file, and from the invariant.

### LocalServer

Assumed: `ConstantsAssumption` (the bounds are naturals, there is a cluster,
and commands are not server numbers). Two commands may do anything to the PID
file, which is why `Discoverable` fails for them; what remains true is proved
for any number of commands. The invariant says, of a process at each stage of
`NewServer` and `Stop`, whether it holds the ingress port (`IngressHeld`), and
that one process at most does (`IngressOnce`), for binding a port that is taken
fails. A process about to write its PID, or serving, finds nobody's PID or its
own in the file (`FileOfBound`): it has truncated the file, another PID could
only be written by a process that holds the port too, and `NotRunning` only
ever empties the file. Conversely, a process that the file names has come as
far as writing it (`FilePublished`). `HeldStarted` carries the same for a PID
that has been read and not yet used, and `UpHolds` for the server that a
command has reported. All of it is in the
source of `LocalServerProofs`, whose steps follow the stages.

### LocalCluster

Assumed: `ConstantsAssumption` (kinds of operations and seeds, the special
values are different from each other and from seeds) and `NoGuestAssumption`
(`NoGuest` is not a guest). `LocalClusterProofs` is about any number of
commands and allows cut writes. Its invariant `TInv` adds to the types what a
command must remember at the step it is at (`Consistent`): a start has a server
from `look` on and an instance ID from `config` on. `SecretsNeverChange` needs
no more, because `Created` looks at the Vault in the step that writes.

`LocalClusterSafety` is about a user who runs one command after the other;
`cluster_key_pair` shows that this is needed. Writes and removals may be cut,
and the properties name what a cut may do: the table above shows, by leaving
out `unmended` or `Torn`, that each exception happens. None of the five
properties is inductive, and they are proved together. `ImageOrder` says at
which steps there can be no image: those of a new cluster up to `create`, and
those of a delete after `remove`. It is what makes the order of the code safe:
`CAKept` and `SeedKept` say that the key and the data are there before the
image is, and by `ImageOrder` a delete takes them away only after it.
`GuestKnown` follows the instance ID from user-data through a start back into
user-data, and by `ImageOrder` no delete touches the record of a guest that
exists. `PairKept` says that a private half is stored only after its own public
half, and that a start that makes a pair found no private half unless a delete
has left one (`unmended`). `Progress` says what each stage of a delete has
removed, and `InstancesKept` that settings are pending only for instances that
have a directory, and that a directory without `instance.json` is the one that
is being removed, or was left by a delete that was killed. There is one lemma for each
action, with a step for each conjunct that the action can disturb. TLC has
checked the invariant on the instance of `LocalClusterCrashes.cfg` as well.

### S3Fake

Assumed: `ConstantsAssumption` (bounds are naturals, `NoReq` is not a request).
No property is inductive; the invariant is that of a lock. `Good` says of each
request that it holds the mutex at the steps that need it, and that what it has
found out about its upload is still true: at `store` the upload is open and the
parts it named are there with those ETags; at `close` the object is stored and
not torn; at `abort` the client has asked for it. `OthersStayGood` is the
argument for the other requests, which do not hold the mutex and so have found
out nothing that can be disturbed. Each action then maps to the action of
`Uploads` that does the same to the disk, or to none. `EndedWasMade` (only an
upload that was made has ended) is needed for `TornCanBeStored`. `TypeCorrect`
needs that parts joined by the recursive function `Joined` are contents again.
Induction on the number of parts is replaced by the least number principle
(`Least`, from the well-founded order of the library): a longest prefix on which
the function were not defined would have a shortest one (`JoinedIsContents`).

### IdentityProofs

*VaultAuth.* A request is checked and served in two steps, between which its
token may expire, be cleared by a restart, or belong to a cluster that has been
made again. `TokensOK` ties every entry of the table to the JWT it was made
from: same cluster, same account, an end that is not later. `CheckedOK` says
that a request that was checked may be served on its token *if that is still
there*; that is all that remains true, and enough, because `Serve` looks again.
`ServedOK` is the property, per slot.

*OidcLogin.* `CodesOK` says of every code that a tab or a login holds that it
was given to the login of that nonce, or is used up: codes are numbered, so a
code that is gone never comes back. `KeysOK` says that a provider that runs has
the key of the file, and so has every token, and that a file that holds a key
is not written again; a torn file is replaced only while no token exists.
`OneListens`: one login has the call-back port, so a stale tab can reach no
other.

*Credentials.* That a stored refresh token is live is not inductive when the
issuer rotates: a renewal makes the token that it uses void. The argument is
about who has which token (`Apart`). One that is about to be stored is in no
other process and no entry (`NewAlone`); one that is about to be used is stored
for its own subject or not at all (`OldAlone`), so the entry that goes stale is
the one that the process will write next; and no two entries hold the same
(`RingApart`). A renewal may also void its token and never store the next one;
`lost` gets the old token in the same step, so an entry is stale only if it
holds a token of `lost` or of a renewal that is `Unsaved`. `ProcOK` says how a
process came where it is, `RingOK` that entries are stored under their own
subject.

*RequiredSecret.* `WriterSafe` says of one command that it has not been applied
as long as it may still write, also after the one retry, and that it has seen
the key active if it ended well and is about a prerequisite. Steps of others
only add to what has been seen.

*KubeContext.* `Entries`: the name of an entry determines, by `TargetsApart`,
what it is the entry of; so an entry that is found and kept is as good as one
that is written, whoever wrote it and was killed. `SeenTo` says what a command
that is alone has already seen to, `Alone` that nobody else runs beside it.

*CloudBootstrap.* Data never goes away again (`SignedBy`), so an apply that has
passed the second look has signed when there was none (`ClearedBy`): this is
what `SeedNeverReplaced` says of the one that publishes. No version of a secret is ever lost, so what an apply has
recorded (`RecordedOK`), signed (`ApplyOK`) or uploaded (`SeedOK`) stays true.
`AddingOK` is for Google, where a secret and its first version are two calls:
whoever is about to add the first version has made the secret, and is alone in
that. `SecretsOK` says that a secret has one version unless it was rotated.

### OperationsProofs

*S3Listing.* `Covered` says what is true between pages: whatever was there all
the time has been seen or comes after the marker. `FirstOfIsAPrefix` shows that
a page leaves out nothing that sorts before its last entry, by the cardinality
of what comes before; `RestIsAfterTheMarker` that uploads, which are compared
by object first, come after the marker all the same; and `NothingIsSkipped`
that the marker is met, because it has been seen and not removed
(`SeenIsThere`).

*ImageMirror.* What a download has marked must survive the rewriting of
`index.json` by all others. `Legit` says what may be in an index: entries of
images, of charts, and lists of a tag, with one entry for each name (here
`ImagesApart` is used). One goroutine at a time is between the locking of the
repository and its release. `JobStage` says what that goroutine knows: what it
has read contains the index that is still there (`Keeps`), and its blobs are
there. `Kept` is the property for an image that is done with: it is in the
index, or in what is being written over a torn one.

*ArtifactCache.* `Progress` says how far a run that nothing disturbs has come:
from `write` on the temporary file is its own inode, and from `cleanUp` on the
served path has its artifact. Those who run together have disturbed each other
(`Together`), so such a run has path and file to itself.

*DepsRelease.* `FlaggedIsThere` needs for each command that what it will mark
is there, spoiled or still being transferred by that command (`HasGot`), and
that whatever its transfers can harm is spoiled already. So the end of a
transfer loses nothing that is not spoiled, which keeps `HasGot` of all other
commands (`WhatIsGotStays`). `StageOf` ties the place of a
command to the operation and to the manifests that are left. `Steady` is about
a download that nothing disturbs: the releases that it resolved are the
published ones, and so are the manifests that it has written (`HasWritten`); it
has met nobody, and what it marks is there.

*ProgressDisplay.* That a display shows how each item ended depends on what is
still on its way. `Tracked` follows the last telling event of an item: it is
being sent, is the last of its kind in the channel, is held by the reader, or
is in the row, and says what became of the item. `EndIsTold` orders the end of
the work, the closing of the channel and the message that says so; `LeavesWell`
says on which grounds a display may be left, in each of its kinds.

*Bundles.* `Locks`: the lock file has one owner, who is the builder between
`lock` and `cleanup`. `Works` has one formula for each stage of a builder, from
the platforms installed so far to the archives written so far; a stage that is
marked as ready is of one release (`Prepared`), although the release that a
builder has found may be gone. `NothingHalf`: what a sum is written for is
whole. `Imports` says what an import has put into the cache, in the order in
which files, indexes and manifests become visible.

*LocalServer, one command at a time.* `OutInFile` is stronger than
`Discoverable`: a server that serves or is shutting down is the one in the PID
file, up to the step that removes it. A step that removes the file on the
strength of an old PID could break it; `UserHolds` says that what the command
has read of the file is still in it, or the file is gone, and `StartsAlone`
that a server about to take the file over finds the one that is out.
`OneStarts` and `KilledAwaited` say that the one command waits for the child
it has spawned and for the process it has killed.

### StacksProofs

*ClusterDelete.* The shards, the instances and the bounds are arbitrary.
`DeleteSound` is not inductive, because it speaks of the last steps only. The
invariant adds what the steps before have seen. `DestroysWhatIsEmpty`: from the
last listing on, what is there has been launched since. `LooksWhenGone`: the
second look comes when the stack, and the controllers with it, is gone; hence
`ListIsComplete`, what it finds is all there will be, and `NoneRuns` when the
delete ends. `ReadInv` is about the put, which is conditional
on a generation: others only make later ones, so a put that is let through
replaces the size that was read.

*TofuCache.* `KindOf` says what each command works with, whoever disturbs it.
Of one that is not disturbed, `PinnedIsKept` says that a stack that names a
version keeps it and the lock file it was found with, `Downloaded` what a
download has put into the cache so far, `FreshIsWhole` that modules, lock file
and current version are of one release from the resolution on, and `HandedOver`
that what OpenTofu gets can be initialised off line.

*StateBucket.* What a run has read and set stays so: others only set more, or
write back the same tags (`HasRead`, `HasSet`). `Progress` says what the tag of
a bucket that Podplane has made means, and `ForeignIsLeft` that the bucket of
somebody else is as it was made. `Configures` joins the two: only a bucket
that Podplane has made is configured, which is where `~Repeatable` is needed. `HasEnsured` is
what a run that succeeded may rely on.

*EngineProcess.* `StateIsSaved` depends on how many interrupts the engine got,
so `InterruptedOnce` counts them: none while the call waits, one at most until
its time of grace is over, because no other step signals it and the terminal
cannot. `Saves` is then about the engine alone: it ends without a second
interrupt only when it has saved and unlocked, or it was killed (`forced`).
`RunsWhen` says at which steps an engine and plugins may run; it makes
`NothingIsLeft` true, since the result is decided after `cmd.Wait` has returned
and the group is killed after that. `Heeded` follows the context: until the
result is decided, a call that was told to stop finds it cancelled.

### What is only model-checked

Liveness: `RequestsAnswered`, `CommandsEnd`, `LoginEnds`, `DownloadEnds` and
`RetriesSucceed`. Arguments under fairness are beyond this prover, which has no
rules for `ENABLED`. Every safety invariant and every action property of a run
that passes has a theorem.

The proofs have changed the models where these could not be reasoned about or
were wrong. `LocalCluster` lacked the step that leads the HTTPS forwarder of a
running guest to the server of now. In `DepsRelease`, `RequiredSecret` and
`TofuCache` a choice by overlapping guards hid the order in which the code asks
its questions; it is a chain of conditions now. What had looked like a general
fact about images turned out to need `ImagesApart`.

## What is not modelled

- Pure functions and generated text have no state for TLC to explore:
  rendered files (`tfgen`, `userdata`, `netsyseed`), the validation of a
  cluster configuration, the evaluation of health checks, the layout of
  displays. Golden tests cover them.
- Sequences of calls of other programs by one command, of which nothing
  outlives the command: deploying, building images, the registry client,
  the commands that only parse flags.
- `clustersleep`; `cluster create` as a whole, whose form is an
  interaction with a user and whose stateful steps are `TofuCache`,
  `StateBucket` and `CloudBootstrap`.
- Of the parts that are modelled: the console of the VM, the size of its data
  disk, port allocation and the telemetry bucket (`LocalCluster`); what the
  server serves (`LocalServer`: see `FakeVault`, `VaultAuth`, `OidcServer`,
  `S3Fake`); cryptography, which is modelled by what it does; the displays of
  status and health, which poll.

`PROJECT.json` lists each of these under `components` with its reason, and
under `hazards` those that no property covers.
