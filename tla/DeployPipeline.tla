--------------------------- MODULE DeployPipeline ---------------------------
(***************************************************************************)
(* From a configuration to an attached program: zerehctl generate, load    *)
(* and generate-load (control/main.c, control/codegen.c,                   *)
(* control/compiler.c) as the scripts of scripts/ chain them, all working  *)
(* on the files below build/ of one working tree.                          *)
(*                                                                         *)
(* A job is one run of a script or of zerehctl; jobs may overlap, since    *)
(* nothing locks the tree, and the operator may edit config.yaml at any    *)
(* time.  What the attach itself does is the subject of XdpLoader.         *)
(***************************************************************************)
EXTENDS Naturals, Sequences, FiniteSets

CONSTANTS
  Jobs,       \* the jobs that may be started
  Kinds,      \* the scripts and commands they may run
  Configs,    \* contents of a configuration file
  None        \* no such file, no program

Interfaces == {"canary", "primary"}

(* zerehctl writes the source through stdio, so that fclose puts the last  *)
(* of it into the file; clang reads it and later renames its result to the *)
(* object.                                                                 *)
Generate == <<"parse", "open_source", "write_source", "close_source",
              "read_source", "write_object">>
HealthCheck == <<"make">> \o Generate \o <<"artifacts">>
Canary == <<"clean", "make">> \o Generate \o <<"parse", "load_canary">> \o HealthCheck

(* The commands of each script that change or depend on the tree, in their *)
(* order.  A job started through make has the prerequisites first.         *)
Script ==
  [deploy_dev    |-> <<"make">> \o Generate \o <<"parse", "load">>,
   deploy_prod   |-> <<"clean", "make">> \o Generate \o <<"release", "parse", "load">>,
   deploy_canary |-> Canary,
   promote       |-> Canary \o <<"parse", "load">>,
   health_check  |-> HealthCheck,
   with_load     |-> HealthCheck \o <<"parse", "load">>,
   rollback      |-> <<"resolve", "build">> \o Generate \o <<"parse", "load">>,
   generate_load |-> Generate \o <<"load">>,
   load          |-> <<"parse", "load">>]

(* A generated source is a head, up to and including xdp_router, and the   *)
(* rest; each is there for a configuration or is missing.  A program has   *)
(* the same two parts, and an object may also hold no program at all.      *)
Part == Configs \cup {None}
Texts == Part \X Part
Programs == Configs \X Configs
Nothing == <<None, None>>

ASSUME PipelineAssumption ==
  /\ Kinds \subseteq DOMAIN Script
  /\ None \notin Configs /\ None \notin Texts

VARIABLES
  file,       \* the contents of config.yaml
  zerehctl,   \* build/bin/zerehctl exists
  outDir,     \* the directory of the generated files exists
  source,     \* router_generated.c: its parts, or absent
  object,     \* router_generated.o: the parts of its program, Nothing, or absent
  releases,   \* the directories of build/release
  loaded,     \* loaded[i]: the program of interface i and what its maps were seeded from
  kind,       \* kind[j]: what job j runs
  todo,       \* todo[j]: the commands it still has to run
  state,      \* whether it runs; "failed": a command missed a file or a directory
  stamp,      \* the time of its start, which names its release directory
  from,       \* the release whose configuration it uses, or None for config.yaml
  cfg,        \* the configuration its zerehctl has parsed
  opened,     \* it has the source open, and the file at the path is still that one
  text,       \* the source as its clang found it
  disturbed,  \* history: another job or an edit came in while it ran
  crossed     \* history: a source was opened for writing while another job had it open

tree == <<file, zerehctl, outDir, source, object, releases, loaded>>
vars == <<tree, kind, todo, state, stamp, from, cfg, opened, text, disturbed, crossed>>

Commands == UNION {{Script[k][n] : n \in DOMAIN Script[k]} : k \in DOMAIN Script}
Release == [stamp : Nat, config : Configs, object : Programs \cup {None, Nothing}]
Attached == [prog : Programs, seeds : Configs, by : Jobs]

Running(j) == state[j] = "running"
Doing(j, command) == Running(j) /\ todo[j] # <<>> /\ Head(todo[j]) = command

TypeOK ==
  /\ file \in Configs
  /\ zerehctl \in BOOLEAN /\ outDir \in BOOLEAN
  /\ source \in Texts \cup {None}
  /\ object \in Programs \cup {None, Nothing}
  /\ releases \subseteq Release
  /\ loaded \in [Interfaces -> Attached \cup {None}]
  /\ kind \in [Jobs -> Kinds \cup {None}]
  /\ todo \in [Jobs -> Seq(Commands)]
  /\ state \in [Jobs -> {"idle", "running", "ok", "failed", "stopped"}]
  /\ stamp \in [Jobs -> Nat]
  /\ from \in [Jobs -> Release \cup {None}]
  /\ cfg \in [Jobs -> Configs \cup {None}]
  /\ opened \in [Jobs -> BOOLEAN]
  /\ text \in [Jobs -> Texts \cup {None}]
  /\ disturbed \in [Jobs -> BOOLEAN]
  /\ crossed \in BOOLEAN

(* A checkout, or a tree in which make generate has been run before. *)
Init ==
  /\ file \in Configs
  /\ \/ zerehctl = FALSE /\ outDir = FALSE /\ object = None
     \/ zerehctl = TRUE /\ outDir = TRUE /\ object \in {<<c, c>> : c \in Configs}
  /\ source = object
  /\ releases = {}
  /\ loaded = [i \in Interfaces |-> None]
  /\ kind = [j \in Jobs |-> None]
  /\ todo = [j \in Jobs |-> <<>>]
  /\ state = [j \in Jobs |-> "idle"]
  /\ stamp = [j \in Jobs |-> 0]
  /\ from = [j \in Jobs |-> None]
  /\ cfg = [j \in Jobs |-> None]
  /\ opened = [j \in Jobs |-> FALSE]
  /\ text = [j \in Jobs |-> None]
  /\ disturbed = [j \in Jobs |-> FALSE]
  /\ crossed = FALSE

-----------------------------------------------------------------------------
(***************************************************************************)
(* Jobs and their surroundings.                                            *)
(***************************************************************************)

Started == {j \in Jobs : state[j] # "idle"}

(* Through make, zerehctl is made before the script starts, and build/xdp  *)
(* by every target but load.                                               *)
Start(j, k, throughMake) ==
  /\ state[j] = "idle"
  /\ state' = [state EXCEPT ![j] = "running"]
  /\ kind' = [kind EXCEPT ![j] = k]
  /\ todo' = [todo EXCEPT ![j] = Script[k]]
  /\ stamp' = [stamp EXCEPT ![j] = Cardinality(Started) + 1]
  /\ zerehctl' = (zerehctl \/ throughMake)
  /\ outDir' = (outDir \/ (throughMake /\ k # "load"))
  /\ disturbed' = [i \in Jobs |-> \/ disturbed[i]
                                  \/ i = j /\ \E r \in Jobs : Running(r)
                                  \/ i # j /\ Running(i)]
  /\ UNCHANGED <<file, source, object, releases, loaded, from, cfg, opened, text, crossed>>

EditConfig ==
  /\ file' \in Configs \ {file}
  /\ disturbed' = [j \in Jobs |-> disturbed[j] \/ Running(j)]
  /\ UNCHANGED <<zerehctl, outDir, source, object, releases, loaded,
                 kind, todo, state, stamp, from, cfg, opened, text, crossed>>

(* A tool, the compiler or the attach fails, or the job is killed. *)
Stop(j) ==
  /\ Running(j)
  /\ state' = [state EXCEPT ![j] = "stopped"]
  /\ UNCHANGED <<tree, kind, todo, stamp, from, cfg, opened, text, disturbed, crossed>>

(* The scripts run under set -e: the first refusal ends them. *)
Refuse(j) ==
  /\ state' = [state EXCEPT ![j] = "failed"]
  /\ UNCHANGED todo

Proceed(j) ==
  /\ todo' = [todo EXCEPT ![j] = Tail(@)]
  /\ state' = [state EXCEPT ![j] = IF Len(todo[j]) = 1 THEN "ok" ELSE @]

-----------------------------------------------------------------------------
(***************************************************************************)
(* make and the commands of the scripts.                                   *)
(***************************************************************************)

(* rm -rf build. *)
Clean(j) ==
  /\ Doing(j, "clean")
  /\ zerehctl' = FALSE
  /\ releases' = {}
  /\ outDir' = FALSE /\ source' = None /\ object' = None
  /\ opened' = [i \in Jobs |-> FALSE]
  /\ Proceed(j)
  /\ UNCHANGED <<file, loaded, kind, stamp, from, cfg, text, disturbed, crossed>>

(* The target all makes the binaries and their directory, not build/xdp. *)
Make(j) ==
  /\ Doing(j, "make") \/ Doing(j, "build")
  /\ zerehctl' = TRUE
  /\ Proceed(j)
  /\ UNCHANGED <<file, outDir, source, object, releases, loaded,
                 kind, stamp, from, cfg, opened, text, disturbed, crossed>>

(* health_check.sh looks for both files at their default place. *)
CheckArtifacts(j) ==
  /\ Doing(j, "artifacts")
  /\ IF source # None /\ object # None THEN Proceed(j) ELSE Refuse(j)
  /\ UNCHANGED <<tree, kind, stamp, from, cfg, opened, text, disturbed, crossed>>

(* deploy_prod.sh copies config.yaml and, if it is there, the object. *)
CopyRelease(j) ==
  /\ Doing(j, "release")
  /\ releases' = releases \cup {[stamp |-> stamp[j], config |-> file, object |-> object]}
  /\ Proceed(j)
  /\ UNCHANGED <<file, zerehctl, outDir, source, object, loaded,
                 kind, stamp, from, cfg, opened, text, disturbed, crossed>>

Newer(r) == {s \in releases : s.stamp > r.stamp}

(* resolve_release_dir with "latest" or with "previous". *)
ResolveRelease(j, newer) ==
  LET found == {r \in releases : Cardinality(Newer(r)) = newer}
  IN  /\ Doing(j, "resolve")
      /\ \/ /\ \E r \in found : from' = [from EXCEPT ![j] = r]
            /\ Proceed(j)
         \/ /\ found = {}
            /\ Refuse(j)
            /\ UNCHANGED from
      /\ UNCHANGED <<tree, kind, stamp, cfg, opened, text, disturbed, crossed>>

-----------------------------------------------------------------------------
(***************************************************************************)
(* zerehctl.                                                               *)
(***************************************************************************)

(* zerehctl starts and reads its configuration file. *)
ParseConfig(j) ==
  /\ Doing(j, "parse")
  /\ IF zerehctl /\ from[j] \in releases \cup {None}
     THEN /\ cfg' = [cfg EXCEPT ![j] = IF from[j] = None THEN file ELSE from[j].config]
          /\ Proceed(j)
     ELSE Refuse(j) /\ UNCHANGED cfg
  /\ UNCHANGED <<tree, kind, stamp, from, opened, text, disturbed, crossed>>

OthersHaveItOpen(j) == \E r \in Jobs \ {j} : Running(r) /\ opened[r]

(* Variant: the file is opened without being truncated. *)
OpenSourceKeeps(j) ==
  /\ Doing(j, "open_source")
  /\ IF outDir
     THEN /\ source' = IF source = None THEN Nothing ELSE source
          /\ opened' = [opened EXCEPT ![j] = TRUE]
          /\ crossed' = (crossed \/ OthersHaveItOpen(j))
          /\ Proceed(j)
     ELSE Refuse(j) /\ UNCHANGED <<source, opened, crossed>>
  /\ UNCHANGED <<file, zerehctl, outDir, object, releases, loaded,
                 kind, stamp, from, cfg, text, disturbed>>

(* fopen "wb" truncates the file where it is. *)
OpenSource(j) ==
  /\ Doing(j, "open_source")
  /\ IF outDir
     THEN /\ source' = Nothing
          /\ opened' = [opened EXCEPT ![j] = TRUE]
          /\ crossed' = (crossed \/ OthersHaveItOpen(j))
          /\ Proceed(j)
     ELSE Refuse(j) /\ UNCHANGED <<source, opened, crossed>>
  /\ UNCHANGED <<file, zerehctl, outDir, object, releases, loaded,
                 kind, stamp, from, cfg, text, disturbed>>

(* The whole blocks of the text, over whatever is there. *)
WriteSource(j) ==
  /\ Doing(j, "write_source")
  /\ source' = IF opened[j] THEN <<cfg[j], source[2]>> ELSE source
  /\ Proceed(j)
  /\ UNCHANGED <<file, zerehctl, outDir, object, releases, loaded,
                 kind, stamp, from, cfg, opened, text, disturbed, crossed>>

(* fclose writes what is left in the buffer.  Its result is not looked at, *)
(* so a failure is not noticed; and where another job has written a longer *)
(* text meanwhile, the end of that stays.                                  *)
CloseSource(j) ==
  /\ Doing(j, "close_source")
  /\ source' \in {source} \cup IF opened[j] THEN {<<source[1], cfg[j]>>} ELSE {}
  /\ opened' = [opened EXCEPT ![j] = FALSE]
  /\ Proceed(j)
  /\ UNCHANGED <<file, zerehctl, outDir, object, releases, loaded,
                 kind, stamp, from, cfg, text, disturbed, crossed>>

(* clang opens the source and reads on until WriteObject. *)
ReadSource(j) ==
  /\ Doing(j, "read_source")
  /\ text' = [text EXCEPT ![j] = source]
  /\ opened' = [opened EXCEPT ![j] = (source # None)]
  /\ IF source = None THEN Refuse(j) ELSE Proceed(j)
  /\ UNCHANGED <<tree, kind, stamp, from, cfg, disturbed, crossed>>

(* The rest may have been written after the head was read. *)
Seen(j) == {text[j]} \cup IF opened[j] THEN {<<text[j][1], source[2]>>} ELSE {}

(* The programs an object made of the text t may hold.  clang never gets   *)
(* past the zero bytes of a missing head.  A text that is cut compiles if  *)
(* the cut is in front of the functions, which leaves no program, or       *)
(* behind xdp_router, which loses zereh_app_default, the same program for  *)
(* every configuration.                                                    *)
CompiledTo(t) ==
  {o \in Programs \cup {Nothing} : \/ o = t
                                   \/ t[2] = None /\ o \in {Nothing, <<t[1], t[1]>>}}

(* Variant: the exit status of clang is not looked at. *)
WriteObjectUnchecked(j) ==
  /\ Doing(j, "write_object")
  /\ \/ outDir /\ \E t \in Seen(j) : object' \in CompiledTo(t)
     \/ object' \in {object, None}
  /\ opened' = [opened EXCEPT ![j] = FALSE]
  /\ Proceed(j)
  /\ UNCHANGED <<file, zerehctl, outDir, source, releases, loaded,
                 kind, stamp, from, cfg, text, disturbed, crossed>>

(* A failing clang may remove the object that was there.  It fails without *)
(* the directory of the object, on a damaged text, or for a reason of its  *)
(* own.                                                                    *)
WriteObject(j) ==
  /\ Doing(j, "write_object")
  /\ \/ /\ outDir
        /\ \E t \in Seen(j) : object' \in CompiledTo(t)
        /\ Proceed(j)
     \/ /\ ~outDir
        /\ object' \in {object, None}
        /\ Refuse(j)
     \/ /\ object' \in {object, None}
        /\ state' = [state EXCEPT ![j] = "stopped"]
        /\ UNCHANGED todo
  /\ opened' = [opened EXCEPT ![j] = FALSE]
  /\ UNCHANGED <<file, zerehctl, outDir, source, releases, loaded,
                 kind, stamp, from, cfg, text, disturbed, crossed>>

(* Variant: the symbol of the program is not looked for. *)
LoadableAny == object # None

(* load_and_swap_xdp finds its program in the object. *)
Loadable == object \notin {None, Nothing}

(* load_and_swap_xdp: whatever object is at the path, with maps seeded     *)
(* from the configuration of this process.                                 *)
Load(j, i) ==
  /\ Doing(j, IF i = "canary" THEN "load_canary" ELSE "load")
  /\ IF Loadable
     THEN /\ loaded' = [loaded EXCEPT ![i] = [prog |-> object, seeds |-> cfg[j], by |-> j]]
          /\ Proceed(j)
     ELSE Refuse(j) /\ UNCHANGED loaded
  /\ UNCHANGED <<file, zerehctl, outDir, source, object, releases,
                 kind, stamp, from, cfg, opened, text, disturbed, crossed>>

-----------------------------------------------------------------------------
Step(j) ==
  \/ Clean(j) \/ Make(j) \/ CheckArtifacts(j) \/ CopyRelease(j)
  \/ \E newer \in {0, 1} : ResolveRelease(j, newer)
  \/ ParseConfig(j)
  \/ OpenSource(j) \/ WriteSource(j) \/ CloseSource(j) \/ ReadSource(j) \/ WriteObject(j)
  \/ \E i \in Interfaces : Load(j, i)

Next ==
  \/ \E j \in Jobs :
       \/ \E k \in Kinds, throughMake \in BOOLEAN : Start(j, k, throughMake)
       \/ Step(j)
       \/ Stop(j)
  \/ EditConfig

Spec == Init /\ [][Next]_vars

-----------------------------------------------------------------------------
(***************************************************************************)
(* Properties.                                                             *)
(***************************************************************************)

(* A program attached by a job that generated it, and that no other job    *)
(* and no edit of the configuration disturbed, has maps seeded from the    *)
(* configuration it was generated from, though generate and load are       *)
(* processes of their own and meet only in the file system, and whatever   *)
(* files earlier jobs left behind when they stopped half-way.              *)
SoleJobConsistent ==
  \A i \in Interfaces : loaded[i] # None =>
    LET j == loaded[i].by
    IN  ~disturbed[j] /\ kind[j] # "load"
          => loaded[i].prog = <<loaded[i].seeds, loaded[i].seeds>>

(* As long as no job has opened the source for writing while another was   *)
(* writing or compiling it, every attached program is that of one          *)
(* configuration: whatever sources and objects jobs that stopped left      *)
(* behind, whatever a write_file that ignores fclose lost, and though      *)
(* other jobs may compile the source while it is being written, or load an *)
(* object that is not theirs.                                              *)
NoMixedProgram ==
  ~crossed => \A i \in Interfaces :
                loaded[i] # None => loaded[i].prog[1] = loaded[i].prog[2]

(* docs/operators/production-runbook.md, of deploy_prod.sh: "What it does" *)
(* - clean, rebuild, generate, create the release directory, load.  Alone  *)
(* in the tree and with no tool failing, none of its commands refuses.     *)
ProdDeployCompletes ==
  \A j \in Jobs : kind[j] = "deploy_prod" /\ ~disturbed[j] => state[j] # "failed"
=============================================================================
