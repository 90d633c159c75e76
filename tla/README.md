# A TLA+ model of Zereh

Zereh routes DNS queries in the kernel. A YAML file is turned into C, compiled
to BPF, and attached to an interface as an XDP program; operators change the
routing by loading the next program over the running one. This directory holds
TLA+ modules for the parts of that path that have state, configurations that
model-check them, and proofs.

## The system and its parts

| Part | Source | Here |
| --- | --- | --- |
| loader: `zerehctl load`, `unload` | `control/loader.c` | `XdpLoader`, which implements `AtomicSwap`; the filling of prog_array is in `RouteConfig` |
| data plane: filters, routing, rate limiter, PoW, Bloom | `xdp/xdp_template.c` | `XdpRouter`, `QnameMatch` |
| data plane: rewriting of queries, route hash | `xdp/xdp_template.c` | `Checksum`, `DomainHash` |
| DNS parser | `xdp/dns_parser.h` | `DnsParser` (bytes); `QnameMatch` (labels) is what it is shown to compute |
| code generator | `control/codegen.c` | `XdpRouter` (what the code decides), `DeployPipeline` (how the file is written) |
| hashing, normalisation | `control/hash.c` | `DomainHash`, `QnameMatch` |
| configuration parser | `control/yaml_parser.c`, `control/config.*` | `RouteConfig` |
| AF_XDP receiver | `apps/zereh_rx.c` | `XskReceiver` |
| command line, clang driver | `control/main.c`, `control/compiler.c` | `DeployPipeline` |
| deployment scripts, Makefile | `scripts/*.sh`, `Makefile` | `DeployPipeline` |
| mock DNS server, build metadata, logging, systemd units | `apps/mock_dns_server.c`, `scripts/`, `docs/operators/systemd/` | see "Not modelled" |

The parts meet in these places. `RouteConfig` turns a document into the routes
whose ranges the other modules assume. The pipeline hands the loader an object
file and a configuration (`DeployPipeline`). The loader seeds the maps of a
program and swaps it in (`XdpLoader`). The program then handles packets on all
CPUs against those maps (`XdpRouter`). There a swap is one step, which is justified
because `XdpLoader` implements `AtomicSwap` (proved). `XdpRouter` works on names as
lists of labels; `AcceptedIsDecoded` of `DnsParser` (proved) says that the bytes
give the same names. Packets of `user_space` routes end in the rings of `XskReceiver`.

## XdpLoader

State: the three XDP slots of one interface, the bpf_links, the pinned link,
the generation of the interface (its ifindex), and for every invocation of
zerehctl its program counter, mode, seeded maps and link descriptor. Each
program carries the name of the invocation that loads it. `before` is history.

A step is one system call that others can see. `LoadObject`, `SeedMap` and
`FindProgram` are the body of `zereh_load_and_swap_xdp` up to the attach;
`QueryOldProg`/`XdpAttach` are `zereh_attach_xdp_replace`; `GetPinnedLink`,
`UpdateLink`, `AttachLink`, `PinLink`, `CloseLink` are
`zereh_attach_or_update_link`; `TryNextMode` is `zereh_attach_with_fallback`;
`UnloadGet` to `Detach` are `zereh_detach_xdp`. Any call may fail. `Crash` kills
an invocation anywhere. The kernel's rules (a link dies with its last reference
and detaches; netlink may not touch a slot a link holds; native and generic
exclude each other; a link of a removed interface is defunct while its pin
stays; prog_array is cleared with its last user-space reference) are operators
of their own, taken from how the loader relies on them.

| Run | Shows |
| --- | --- |
| `loader_safety` | three invocations, all modes, all failures and crashes: `SwapOnlySeeded`, `ActiveMapsSeeded`, `FailedLoadInvisible`, `CompletedLoadServes`, `CleanUnload` |
| `loader_recreate` | two invocations while the interface is re-created, on a driver without XDP: `CompletedLoadServes`, `CleanUnload` with a stale pin, `EveryInvocationReturns`, and the refinement `ImplementsAtomicSwap` |
| `loader_tailcall` (violation) | prog_array is empty after a successful load |

Three invocations are the least at which an older program could come back over
two newer ones, or an unload could pass a slot while two loads move. One
re-creation is enough to make a pin stale. The first run uses a driver with
every mode, so that all fallbacks exist; the second one without any, where a
native load lands in the generic slot (and is still reported as native).
Fairness is weak fairness of each started invocation:
no step of the loader waits for another process, so a scheduler that runs it is
all it needs. Invocations are not forced to start, and crash freely.
`CHECK_DEADLOCK FALSE` because the finitely many invocations all end.

`AtomicSwap` is what a caller of zerehctl may rely on, without links, pins,
descriptors, modes or maps: a call prepares its program and then installs it in
one step, or offers it in an empty slot and keeps or withdraws it; the only
programs that stop without a successor are those of the call that acts, others
once some unload was asked for, and all of them when the interface is re-created;
success is reported for an installed
program, and an error only when the program of the call runs nowhere. The
refinement mapping takes the slots as they are and reads the phase of a call off
its program counter (`PhaseOf`): a call whose link has no other reference than
its own descriptor is "offered". An unload ends the promise for running
programs, because a load that meets it may hold the last reference of the link
that was unpinned.

## QnameMatch and XdpRouter

`QnameMatch` has the string functions: normalisation of a configured domain,
the name the parser collects, and the prefix and suffix comparisons with their
iteration limit. A name is a short sequence over a few characters, and `"A"`
stands for upper case: case, final dots and label boundaries are what the
properties tell apart.

`XdpRouter` has a clock, generations of programs with maps of their own
(`rate`, `bloom`, `xsk`, `tails`), and per CPU the packet in progress. A
packet's run is split where the code reads the clock or a map that another party
writes: `Receive` is `xdp_router` up to the rate limiter, then `RateLimit`,
`PowCheck`, `BloomCheck` and `Target`. The clock may advance between any two of
them, and a swap may happen while packets are inside the old program.
`SeedMaps`, `Swap` and `CloseObject` are the loader as the data plane sees it.
`admitted`, `loadedAt` and the fields `by` and `at` of `work` are history. Hash
functions are constant operators; that no program has two equal case labels is
assumed (`DistinctCases`), because clang refuses such a source. `seed_bloom_map`
reads the wall clock once per route; the model reads it once per load.

| Run | Shows |
| --- | --- |
| `router_rate` | two CPUs, two generations, two seconds: `RateBound`, `NoEarlyRateDrop` |
| `router_queries` | names of up to four labels and every early refusal: `ExactBeatsFallback`, `SubdomainsRouted`, `BudgetOnlyForEligible`; three buckets of two seconds: `PowTokenHonoured`, `PowTokenExpires`; `SeededNamesPass` |
| `router_bloom_clock` (violation) | the seeder uses the wall clock, the test the time since boot |

Bounds: the limits of the loops (128, 32, 255 in the code) are constants, set to
4, 4 and 6 in `router_queries` so that names and domains on both sides of each
limit occur. A budget of 2 and then 1 makes every count from empty to full
appear on each CPU. Seconds 0 to 5 cover three buckets of two seconds, so the
missing predecessor of bucket 0 and the expiry of its tokens are reached.
`SubdomainsRouted` is limited to domains written in lower case and without a
final dot, because the generator puts a domain into its fallback rule as it is
written, and no query name ever ends in a capital or a dot.

Five differences between the documents and the code are recorded here and not
checked by a run:

- A proof of work is valid for its bucket and the next one, so one that is made in
  the first second of a bucket is accepted until `2 * time_window - 1` seconds later;
  `config.yaml` line 66 says "PoW tokens valid for 60 seconds" of a window of 60.
  `PowTokenHonoured` says that no token is refused within its window, and
  `PowTokenExpires` that an accepted one is always one that some second at most a
  window ago would give too.
- The rate limiter's map is per CPU (`RateBound` is about one CPU), so a route
  served by n CPUs grants n times its qps; `config.yaml` line 42 says "for this
  domain".
- The fallback rule (`FallbackRoutes`) only compares the end of the name, so
  `xexample.com` takes the route of `example.com`; `readme.md` line 331 speaks of
  "subdomain routing".
- `suffix_match` (`StaticFilters`) is compared with the end of the whole name, so
  the example `sensor1-data.t.example.com` of `config.yaml` line 38 does not end in
  `-data`.
- A packet to port 53 that does not parse as a query passes before the global
  filters (`Classify`); `config.yaml` line 13 says they are "Applied to ALL traffic
  on port 53".

## DnsParser and DomainHash

`DnsParser` reads a frame as `zereh_parse_eth_ipv4_udp` and
`zereh_parse_dns_query` do: one step is one check with the read that follows it.
The length of the frame, the header length in the IP header, the length in the
UDP header and every byte of the question are independent inputs; a byte is
chosen when it is read. `reach` and `question` are history: the end of the
furthest byte read, and the bytes of the name. `DomainHash` has both versions of
each hash: the loops of `control/hash.c` and the bounded ones of the data plane.
A step of FNV-1a is a constant operator, and a SipHash value is what was absorbed
in which order; the mixing arithmetic is the same text on both sides.

| Run | Shows |
| --- | --- |
| `dns_parser` | `ReadsInBounds`, `WritesInBounds`; `AcceptedIsDecoded` and `RefusedIsMalformed`, which together say that the byte loop accepts exactly the encodings of the names that `QnameMatch` lets through and decodes them to the same text; `RouteHashAgrees` |

The bytes 0 to 4 are lengths, letters, a capital and a dot at once, as bytes of a
real frame are. Labels have at most 3 bytes, the label loop runs three times, a
name holds 5 characters, and the SipHash loop reads two blocks of two. With these
sizes a name can fail by its number of labels alone, or by its length alone, as
with the limits of the code, and names below, at and beyond each limit occur.
`Names` takes one name for each list of label lengths and fills it with the bytes
of the question, which is enough because only the lengths decide what is accepted.
Headers are one byte (an IP header
up to three), and frames and stated lengths end before and after each of them.
Sizes are constants, and the proofs below do not depend on their values.

## Checksum

`zereh_route_kernel_space` rewrites the address and the port in place and updates
the IP and UDP checksums incrementally. A packet is the words that the function
touches, and the sum of the others; `Verifies` is the test of a receiver.

| Run | Shows |
| --- | --- |
| `checksum` | every value of both checksums in words of three bits, good or bad: `GoodStaysGood`, and `BadStaysBad` |

`BadStaysBad` has one exception, as in the code: an update that gives 0 means "no
checksum" to the receiver (RFC 768 would send all ones). The branch that rewrites the
address is modelled as it stands in the function, though the generator passes 0 for
the new address, so that today's programs only rewrite the port. Addresses, ports and the
sum of the rest are a few values each; the proofs are for all of them and for
every word size. `CHECK_DEADLOCK FALSE` because each behaviour is one call.

## RouteConfig

A document is a root mapping and a list of routes, each a function from the keys
that it has to values. `ConfigKeys` and `RouteKeys` list the keys in the order in
which the code reads them, with their alternatives, so that one action
(`ReadConfigKey`, `ReadRouteKey`) stands for a read with its range check and its
error return. `Settled` and `InRange` are the end of `zereh_parse_route`. `SeedTail`
is the loop of `zereh_seed_prog_array`.

| Run | Shows |
| --- | --- |
| `route_config` | `RoutesAreUsable`, `OptionsApplyToRoutes`, `RoutesAsWritten` (against a table of which key is the strongest), `RefusedForCause`, `TailTableAsConfigured` |

The documents give related keys in all combinations, with values inside and
outside the ranges of labels, lengths, difficulties, Bloom filters and ports, which
are those of the code (`MaxU32` is 70000 here, beyond all other limits). At most
three routes, two blacklist entries and two seeds are accepted, texts have two
characters, and documents exceed each of these. Three routes can share one index of
prog_array in every order. A `prog_name` that is no scalar counts as an empty one: the
code ignores it and does not look at `xdp_prog_name` any more. `RefusedForCause` takes
from the model which single values a parser accepts (`Legal`); what it says of its own
is how values combine.

`TailTableAsConfigured` is about the moment at which `zereh_seed_prog_array` returns.
A load that then succeeds clears the table when it closes the object, which is the
subject of `loader_tailcall`. A configuration that asks for two programs at one index
is accepted, and the last route decides the entry; since an absent index is 0, routes
without one share an entry in this way. No document promises anything else. Two more
consequences of the code that the properties state and a reader may not expect: a
route that gives only one of two bounds gets it as both, and a `min_labels` above 31
(`RoutesAreUsable` allows up to 127) is accepted though the parser of the data plane
lets no name with so many labels through, so that such a route never matches.
`CHECK_DEADLOCK FALSE` because each behaviour is one parse and load.

## XskReceiver

`zereh_rx` shares a pool of frames with the kernel. State: the three places of a
frame (fill ring, driver, receive ring) as sequences, what `zereh_xsk_ctx` holds,
the current batch, and `g_stop`. The kernel's two steps and the signal may happen
between any two steps of the receiver.

| Run | Shows |
| --- | --- |
| `xsk_receiver` | `FramesConserved`, `ReserveNeverSpins`, `SocketHasMemory`, and with fairness `StopExits` and `DeliveredIsHandled` |

Six frames, four receive entries and batches of three let the receive ring fill
up, a batch be partly handled while more packets arrive, and two batches follow
each other. Fairness: the receiver is scheduled (weak fairness of its steps), and
poll, which has a timeout of a second, is not interrupted by signals for ever
(strong fairness of `PollReturns`). Nothing is assumed of the kernel or of the
traffic. `CHECK_DEADLOCK FALSE` because the program may exit. `TakeFrame` removes an
entry of the fill ring before `Deliver` adds it to the receive ring; a kernel that
publishes the two ring indices in the other order shows one frame in both for a
moment, which `FramesConserved` leaves out.

## DeployPipeline

One working tree: the binary, the output directory, the generated source and
object, the release directories, and what each interface runs. A job is a script
or a zerehctl command, given as the list of its commands that touch the tree
(`Script`); jobs overlap freely, may be started through `make` or directly, may
be stopped anywhere, and the configuration may be edited at any time. `Loadable`
and `Load` are the loader as seen from here. All configurations name the default
generated files below `build/xdp`. `make clean` removes the tree in one step, and
release directories of one second are kept apart.

A source is a pair: its head, up to and including `xdp_router`, and the rest. Each
half belongs to a configuration or is missing. `OpenSource` truncates the file in
place, `WriteSource` writes the head over whatever is there, and `CloseSource` the
rest, which stays in the buffer of stdio until `fclose`; the code does not look at
the result of `fclose`, so the rest may silently be lost. clang (`ReadSource`,
`WriteObject`) may see the rest that is written after it has read the head (`Seen`),
replaces its output in one step, and may remove the old object when it fails.
`CompiledTo` says what an object may hold: the program of the text; for a text that is
cut, also no program at all, or a whole one, if the cut is behind `xdp_router`, where
only the default tail program follows, the same for every configuration. A job whose
open file was removed by `make clean` writes into nothing (`opened`). `disturbed` and
`crossed` are history: another job or an edit came in; a source was opened for writing
while another job was writing or compiling it.

| Run | Shows |
| --- | --- |
| `pipeline_overlap` | two jobs with edits: `SoleJobConsistent`, `NoMixedProgram` |
| `pipeline_prod` (violation) | `deploy_prod.sh` removes the directory that generate needs |

Two jobs suffice for every race on one file; a job that stopped half-way leaves
its files to the second. The run leaves out three of the nine kinds of job, whose
effects on the tree are those of another kind that stops early (`CoveringKinds`);
with all nine it passes too, with 3.7 million states. Two configurations are enough to tell a program from
the wrong seeds. Since `make clean` also removes `build/release`, a second
release directory exists only when deployments overlap.

Nothing locks the tree, and the properties say how much holds all the same. Jobs that
overlap with different configurations can attach a program with another
configuration's seeds, so `SoleJobConsistent` is about undisturbed jobs. Two jobs that
write the source at once can leave the halves of two configurations in it, and such a
program can compile and be attached: `NoMixedProgram` is false without its `~crossed`.
With it, it covers everything short of that: a job that compiles a source while it is
written, or loads an object that another job made, stale files, jobs that stopped
half-way and ends that `fclose` lost. The repository promises nothing about the
excluded cases.

## Mutants

Definitions marked "Variant" are plausible bugs (a skipped seed, an unchecked
result, an off-by-one, a missing case). Each property of each passing run is
violated when one of them replaces the definition after it; `PROJECT.json` lists
the pairs.

## What is proved

`XdpLoaderProofs` proves for any set of invocations, any driver and any number
of re-creations:

- `TypeCorrect`, from `TypeInv`: types, and that an invocation in the load path
  was asked for a mode (needed because the mode is a function argument later).
- `SwapsAreSeeded` and `ActiveProgramsAreSeeded`, from `SeedInv`, which says at
  each program point which maps are complete. The property alone is not
  inductive: it says nothing about an invocation that is about to attach.
- `FailedLoadsAreInvisible`, from `OwnProgramInv`: a program in a slot belongs to
  an invocation that can only succeed, or to one that alone holds the link, so
  that closing it empties the slot. The invariant must also say that nobody
  else holds, and nothing pins, the link of an invocation that has not settled.
- `UnloadsAreClean`, from `CleanInv`: the slots an unload has passed hold
  nothing old, and invocations that have ended attach nothing.
- `LoaderImplementsAtomicSwap`: the initial states map to initial states, and
  every step maps to a step of `AtomicSwap` or to a stutter, one lemma per phase.
  It needs `LinkInv`: a live link has a program, no two links share a slot, an
  unsettled load runs in its own link, and until an unload is asked for a live
  link is pinned or belongs to an unsettled load. The last part says whose
  program a slot loses when a descriptor is closed.
- `CompletedLoadsServe`, from `ServeInv`: already before a load returns success
  some slot has a program that is not older than the load and that only another
  such program replaces.

`XdpRouterProofs` proves for any configurations, packets, CPUs and hash
functions:

- `TypeCorrect`, from `TypeInv` with `WorkInv` (the route of a packet in
  progress is a route of its program).
- `RateIsBounded` and `RateDropsAreDue`, from `RateInv`: an entry of the current
  second counts exactly the packets let through in it, and any other entry
  belongs to a second in which none has been.
- `ExactDomainsWin`, `SubdomainsAreRouted` and, as an action property,
  `BudgetIsForEligible`, from `RouteInv`: a packet past the dispatch has passed the
  global and static filters, its route is the one `SelectRoute` gives, and one with
  the default action has none. What the dispatch selects is proved apart, with the
  library's theorem that a nonempty set of numbers has a least element; that equal
  names have equal case labels comes from `DistinctCases`.
- `TokensAreHonoured`, from `TokenInv` (a packet refused by `pow_allow` has no token
  for the bucket of that second nor for the one before), and `TokensExpire`, an
  action property. Both come down to how seconds fall into buckets, for every
  window length.
- `SeededNamesAreAdmitted`, from `BloomInv`: the bitmap of a program is what the
  seeder made of its routes, it is complete before the program runs and never
  written again, and a refused name lacks one of its bits. Its hypothesis
  `SeedsHaveHashes` says that no seed hashes to 0: the loader skips such a seed.

`DnsParserProofs` proves for all sizes, limits, frames and bytes:

- `ReadsAreInBounds` and `WritesAreInBounds`, from `ParseInv`, which adds where the
  cursor is in each phase: between the start of the question and the end of the
  datagram, with a label's bytes still ahead while it is copied.
- `RouteHashesAgree`, from `NameInv`: the hash and the name are kept together, since
  one more character is one more step of `FnvBytes` (`FnvAppend`). That the block loop
  of the data plane is long enough (`SipLoopIsLongEnough`) needs
  `QnameLimit < (SipBlocks + 1) * SipWord`, in the code 255 < 32 * 8.
- `AcceptedQuestionsAreDecoded` and `RefusedQuestionsAreMalformed`, from `DecodeInv`:
  at the head of the label loop the question is the body of some list of labels and
  the name its text (`AtLabel`), inside the copy loop a part of the next label follows
  (`InLabel`), behind the loop the root label (`AtEnd`), and a refused question has one
  of the reasons that `Refused` lists, one for each check of the loop. For the first
  theorem the list of labels is found among `Names` (`EncodedIsName`). For the second,
  `SameOffsets` shows that the length bytes alone determine where labels are: a name
  whose encoding starts with the bytes read has its labels at the same places, so that
  what is too long, too deep or too large for the datagram stays so in every extension
  (`RefusedHasNoName`).

The names are sequences of any length, so these proofs need induction over `Join`,
`FnvBytes` and `LengthAt`. They get it from the library's theorem that a nonempty set
of numbers has a least element: `Induction` states it for a set in the place of a
predicate, and each recursive definition is first shown to have a solution
(`JoinsToExists`, `HashesToExists`, `PlacesToExists`).

`ChecksumProofs` proves `GoodPacketsStayGood` and `BadPacketsStayBad` for every
word size: an update keeps the sum of the covered words congruent modulo W - 1,
and sums that are not 0 and congruent verify alike.

`RouteConfigProofs` proves for all documents and limits:

- `AcceptedRoutesAreUsable` and `OptionsReachRoutes`, from `ConfigInv`: at each
  point of the parse the route in progress has the widths of its fields, and no
  route exists before the options are read.
- `TypeCorrect`: texts are cut to their buffers, numbers to their widths. `CountInv`
  adds that there are as many finished routes as mappings read.

It also proves the step lemma of `ReadInv`, on which `RouteConfigMeaning` builds:
while a route is read, each of its fields holds what the last row of `RouteKeys`
about it says among the rows read so far, or the default.

`RouteConfigMeaning` proves for all documents and limits:

- `AcceptedRoutesAreAsWritten` and `RefusalsHaveACause`. Neither property is
  inductive: each is about a whole mapping, while the parser reads one row at a
  time. When the last row is read, `WordRows` (which rows are about which setting,
  and in which order the keys of `Strength` occur in them) turns `ReadInv` into what
  the strongest key says, `SettledIsWritten` carries it through the pairing of bounds
  and the settling of PoW and Bloom, `WrittenInv` keeps it for the finished routes,
  and `RefusedIsFaulty` shows that a settled route out of range has a fault in its
  mapping.
- `TailTableIsSeeded`, from `SeedInv`: after the routes before `n`, each entry of the
  table is what the last of them with this index asks for, or still empty (`Entry`).
  The property speaks only of the end of the loop and so is not inductive.

`DeployPipelineProofs` proves for any number of jobs, configurations and interfaces
`TypeCorrect`, `UndisturbedJobsAreConsistent` and `NothingMixedIsLoaded`. The second
comes from `PipelineInv`: a running job is at some place of its script (`OnTrack`),
and if nothing disturbed it, the source, the object and what it has read are at this
place those of its configuration (`Faithful`); two jobs that run at once disturb each
other (`Alone`); a program was attached by a job that was started (`ByStarted`).
The third comes from `Unmixed`: while no opening has crossed another job's use of the
source, at most one job writes it (`OneWriter`); the source lacks its rest or has it
of the same configuration as its head, and one in progress is what its writer has put
there (`SourceOfOne`); the same holds of the text a clang has read, whose head is that
of the source as long as the file is the same (`TextOfOne`); so every object is of one
configuration (`ObjectOfOne`). It needs `Present`: the source exists while somebody has
it open. What the proofs need of the scripts is one
lemma about each (`InOrder`, `LoadsCompiled`).

`XskReceiverProofs` proves `FramesAreConserved`, `ReservesNeverSpin` and
`SocketsHaveMemory` for all numbers of frames and ring sizes, if the fill ring has
room for all frames (`ReceiverAssumption`, as in the code). The invariant adds
what is held at each point of set-up and cleanup.

The assumptions are the named ASSUMEs of the modules, which TLC evaluates in the
runs of these modules: the types of the constants; for the router the ranges that
the configuration parser enforces (`RouterAssumption`, `BloomAssumption`) and
`DistinctCases`; for the receiver that the fill ring has room for all frames; for
the checksums that the words left alone do not add up to 0 (an IPv4 header has a
version, a UDP pseudo-header a protocol); for the hashes that the block loop of
the data plane covers the longest name (`HashAssumption`); for the configuration
parser that a document is a list of routes in which names are texts, and that a
program has a name (`DocumentAssumption`). `SeedsHaveHashes` is the one hypothesis
that is not such an ASSUME.

Only model-checked, because it is out of the prover's reach: liveness
(`EveryInvocationReturns`, `StopExits`, `DeliveredIsHandled`). Every other property of
a passing run is also a theorem. The three properties of violation runs
(`TailCallTableKept`, `BloomSeedsValid`, `ProdDeployCompletes`) do not hold.

`ImplementsAtomicSwap` also holds for three invocations on the driver of
`loader_safety`, which takes TLC four minutes; the run keeps the smaller instance
because the theorem covers the rest.

## Not modelled

- The text that the generator writes, with its escaping, and the verifier that
  accepts or refuses the result: strings, not state.
- The arithmetic inside FNV-1a, SipHash and the Bloom mixing: the same text on
  both sides, with 64-bit words that TLC cannot enumerate.
- The entry of a socket into xsk_map: nothing in the repository writes that map,
  so `BindSocket` is any consumer, and that its socket stays with the old program
  after a swap is modelled without a property.
- The mode that the loader reports when the kernel chose another: it is printed.
- libyaml, clang, make and the shell beyond what the code relies on.
- The mock DNS server keeps no state; build metadata, logging and development
  set-up only format or install. The systemd units start `zerehctl generate-load`
  and, on a timer, `health_check.sh`; in `DeployPipeline` both are jobs that may
  start at any time.
