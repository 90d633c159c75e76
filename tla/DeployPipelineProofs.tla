------------------------ MODULE DeployPipelineProofs ------------------------
(***************************************************************************)
(* What reaches an interface, for every number of jobs that run, overlap   *)
(* and stop half-way in one working tree, and every set of configurations. *)
(*                                                                         *)
(*   Placed    how far a job has come in its script, and what that means   *)
(*             for the configuration it has parsed                         *)
(*   Faithful  what a job that nothing disturbed knows, at each place of   *)
(*             its script, of the files it shares with the other jobs      *)
(*   Alone     two jobs that run at the same time disturb each other       *)
(*   Unmixed   what the files hold as long as nobody has opened the source *)
(*             for writing while another job had it open                   *)
(***************************************************************************)
EXTENDS DeployPipeline, FiniteSetTheorems, SequenceTheorems, TLAPS

(* The obligations are large: a leaf that names no prover has 30 seconds. *)
USE SMTT(30), ZenonT(30)

(* The n-th command of job j comes somewhere after this one, or right      *)
(* after it.                                                               *)
Before(j, n, command) == \E m \in 1 .. n - 1 : Script[kind[j]][m] = command
After(j, n, command) == n > 1 /\ Script[kind[j]][n - 1] = command

(* The configuration that zerehctl reads in job j. *)
Wanted(j) == IF from[j] = None THEN file ELSE from[j].config

(* What zerehctl may leave when nobody interferes: fclose may have failed. *)
Written(c) == {<<c, None>>, <<c, c>>}

Faithful(j, n) ==
  /\ Before(j, n, "parse") => cfg[j] = Wanted(j)
  /\ After(j, n, "open_source") => opened[j] /\ source = Nothing
  /\ After(j, n, "write_source") => opened[j] /\ source = <<cfg[j], None>>
  /\ After(j, n, "close_source") => source \in Written(cfg[j])
  /\ After(j, n, "read_source") => text[j] \in Written(cfg[j]) /\ source = text[j]
  /\ Before(j, n, "write_object") => object \in {Nothing, <<Wanted(j), Wanted(j)>>}

Placed(j, n) ==
  /\ todo[j] = SubSeq(Script[kind[j]], n, Len(Script[kind[j]]))
  /\ Before(j, n, "parse") => cfg[j] \in Configs
  /\ After(j, n, "read_source") => text[j] \in Texts
  /\ ~disturbed[j] => Faithful(j, n)

OnTrack ==
  \A j \in Jobs : Running(j) =>
    kind[j] \in Kinds /\ \E n \in 1 .. Len(Script[kind[j]]) : Placed(j, n)

Alone == \A i, j \in Jobs : Running(i) /\ Running(j) /\ i # j => disturbed[i]

(* An attached program was attached by a job that has been started. *)
ByStarted == \A i \in Interfaces : loaded[i] # None => state[loaded[i].by] # "idle"

(* A source that a job has open is there. *)
Present == \A j \in Jobs : opened[j] => source # None

PipelineInv == TypeOK /\ IsFiniteSet(Started) /\ OnTrack /\ Alone /\ ByStarted /\ Present

-----------------------------------------------------------------------------
(* The scripts. *)

Words ==
  {"clean", "make", "build", "resolve", "release", "artifacts", "parse", "open_source",
   "write_source", "close_source", "read_source", "write_object", "load", "load_canary"}

(* The commands that need a configuration. *)
Users ==
  {"open_source", "write_source", "close_source", "read_source", "write_object",
   "load", "load_canary"}

(* In every script, a configuration is parsed before it is used, the five  *)
(* steps of generate come one after the other, and the tree is cleaned or  *)
(* a release chosen at the very beginning.                                 *)
InOrder(s) ==
  \A n \in 1 .. Len(s) :
    /\ s[n] \in Users => \E m \in 1 .. n - 1 : s[m] = "parse"
    /\ s[n] = "write_source" => n > 1 /\ s[n - 1] = "open_source"
    /\ s[n] = "close_source" => n > 1 /\ s[n - 1] = "write_source"
    /\ s[n] = "read_source" => n > 1 /\ s[n - 1] = "close_source"
    /\ s[n] = "write_object" => n > 1 /\ s[n - 1] = "read_source"
    /\ s[n] \in {"clean", "resolve"} => n = 1

(* Every load comes after a compilation. *)
LoadsCompiled(s) ==
  \A n \in 1 .. Len(s) :
    s[n] \in {"load", "load_canary"} => \E m \in 1 .. n - 1 : s[m] = "write_object"

(* All nine scripts have this shape, but the bare command loads the object *)
(* that it finds.                                                          *)
LEMMA ScriptShape ==
  ASSUME NEW k \in DOMAIN Script
  PROVE  /\ Script[k] \in Seq(Words) /\ Len(Script[k]) > 0
         /\ InOrder(Script[k])
         /\ k # "load" => LoadsCompiled(Script[k])
<1>1. k \in {"deploy_dev", "deploy_prod", "deploy_canary", "promote", "health_check",
             "with_load", "rollback", "generate_load", "load"}
  BY DEF Script
<1>2. CASE k = "deploy_dev"
  <2>1. Script["deploy_dev"] = <<"make">> \o Generate \o <<"parse", "load">>
    BY DEF Script
  <2> DEFINE s == Script["deploy_dev"]
  <2>2. s \in Seq(Words) /\ Len(s) > 0
    BY <2>1 DEF Words, Generate
  <2>3. InOrder(s)
    BY <2>1 DEF InOrder, Users, Generate
  <2>4. LoadsCompiled(s)
    BY <2>1 DEF LoadsCompiled, Generate
  <2> HIDE DEF s
  <2> QED
    BY <1>2, <2>2, <2>3, <2>4 DEF s
<1>3. CASE k = "deploy_prod"
  <2>1. Script["deploy_prod"] = <<"clean", "make">> \o Generate \o <<"release", "parse", "load">>
    BY DEF Script
  <2> DEFINE s == Script["deploy_prod"]
  <2>2. s \in Seq(Words) /\ Len(s) > 0
    BY <2>1 DEF Words, Generate
  <2>3. InOrder(s)
    BY <2>1 DEF InOrder, Users, Generate
  <2>4. LoadsCompiled(s)
    BY <2>1 DEF LoadsCompiled, Generate
  <2> HIDE DEF s
  <2> QED
    BY <1>3, <2>2, <2>3, <2>4 DEF s
<1>4. CASE k = "deploy_canary"
  <2>1. Script["deploy_canary"] = Canary
    BY DEF Script
  <2> DEFINE s == Script["deploy_canary"]
  <2>2. s \in Seq(Words) /\ Len(s) > 0
    BY <2>1 DEF Words, Generate, HealthCheck, Canary
  <2>3. InOrder(s)
    BY <2>1 DEF InOrder, Users, Generate, HealthCheck, Canary
  <2>4. LoadsCompiled(s)
    BY <2>1 DEF LoadsCompiled, Generate, HealthCheck, Canary
  <2> HIDE DEF s
  <2> QED
    BY <1>4, <2>2, <2>3, <2>4 DEF s
<1>5. CASE k = "promote"
  <2>1. Script["promote"] = Canary \o <<"parse", "load">>
    BY DEF Script
  <2> DEFINE s == Script["promote"]
  <2>2. s \in Seq(Words) /\ Len(s) > 0
    BY <2>1 DEF Words, Generate, HealthCheck, Canary
  <2>3. InOrder(s)
    BY <2>1 DEF InOrder, Users, Generate, HealthCheck, Canary
  <2>4. LoadsCompiled(s)
    BY <2>1 DEF LoadsCompiled, Generate, HealthCheck, Canary
  <2> HIDE DEF s
  <2> QED
    BY <1>5, <2>2, <2>3, <2>4 DEF s
<1>6. CASE k = "health_check"
  <2>1. Script["health_check"] = HealthCheck
    BY DEF Script
  <2> DEFINE s == Script["health_check"]
  <2>2. s \in Seq(Words) /\ Len(s) > 0
    BY <2>1 DEF Words, Generate, HealthCheck
  <2>3. InOrder(s)
    BY <2>1 DEF InOrder, Users, Generate, HealthCheck
  <2>4. LoadsCompiled(s)
    BY <2>1 DEF LoadsCompiled, Generate, HealthCheck
  <2> HIDE DEF s
  <2> QED
    BY <1>6, <2>2, <2>3, <2>4 DEF s
<1>7. CASE k = "with_load"
  <2>1. Script["with_load"] = HealthCheck \o <<"parse", "load">>
    BY DEF Script
  <2> DEFINE s == Script["with_load"]
  <2>2. s \in Seq(Words) /\ Len(s) > 0
    BY <2>1 DEF Words, Generate, HealthCheck
  <2>3. InOrder(s)
    BY <2>1 DEF InOrder, Users, Generate, HealthCheck
  <2>4. LoadsCompiled(s)
    BY <2>1 DEF LoadsCompiled, Generate, HealthCheck
  <2> HIDE DEF s
  <2> QED
    BY <1>7, <2>2, <2>3, <2>4 DEF s
<1>8. CASE k = "rollback"
  <2>1. Script["rollback"] = <<"resolve", "build">> \o Generate \o <<"parse", "load">>
    BY DEF Script
  <2> DEFINE s == Script["rollback"]
  <2>2. s \in Seq(Words) /\ Len(s) > 0
    BY <2>1 DEF Words, Generate
  <2>3. InOrder(s)
    BY <2>1 DEF InOrder, Users, Generate
  <2>4. LoadsCompiled(s)
    BY <2>1 DEF LoadsCompiled, Generate
  <2> HIDE DEF s
  <2> QED
    BY <1>8, <2>2, <2>3, <2>4 DEF s
<1>9. CASE k = "generate_load"
  <2>1. Script["generate_load"] = Generate \o <<"load">>
    BY DEF Script
  <2> DEFINE s == Script["generate_load"]
  <2>2. s \in Seq(Words) /\ Len(s) > 0
    BY <2>1 DEF Words, Generate
  <2>3. InOrder(s)
    BY <2>1 DEF InOrder, Users, Generate
  <2>4. LoadsCompiled(s)
    BY <2>1 DEF LoadsCompiled, Generate
  <2> HIDE DEF s
  <2> QED
    BY <1>9, <2>2, <2>3, <2>4 DEF s
<1>10. CASE k = "load"
  <2>1. Script["load"] = <<"parse", "load">>
    BY DEF Script
  <2> DEFINE s == Script["load"]
  <2>2. s \in Seq(Words) /\ Len(s) > 0
    BY <2>1 DEF Words
  <2>3. InOrder(s)
    BY <2>1 DEF InOrder, Users
  <2> HIDE DEF s
  <2> QED
    BY <1>10, <2>2, <2>3 DEF s
<1> QED
  BY <1>1, <1>2, <1>3, <1>4, <1>5, <1>6, <1>7, <1>8, <1>9, <1>10

(* A script is a sequence of commands. *)
LEMMA ScriptType ==
  ASSUME NEW k \in Kinds
  PROVE  Script[k] \in Seq(Commands) /\ Len(Script[k]) \in Nat \ {0}
<1>1. k \in DOMAIN Script
  BY PipelineAssumption
<1>2. Script[k] \in Seq(Words) /\ Len(Script[k]) > 0
  BY <1>1, ScriptShape
<1>3. \A n \in DOMAIN Script[k] : Script[k][n] \in Commands
  BY <1>1 DEF Commands
<1>4. Len(Script[k]) \in Nat /\ Script[k] = [n \in 1 .. Len(Script[k]) |-> Script[k][n]]
      /\ DOMAIN Script[k] = 1 .. Len(Script[k])
  BY <1>2
<1> QED
  BY <1>2, <1>3, <1>4

(* The first of the remaining commands, and what remains after it. *)
LEMMA RestOfScript ==
  ASSUME NEW S, NEW s \in Seq(S), NEW n \in 1 .. Len(s)
  PROVE  LET t == SubSeq(s, n, Len(s))
         IN  /\ t \in Seq(S) /\ t # <<>>
             /\ Len(t) = Len(s) - n + 1
             /\ Head(t) = s[n]
             /\ Tail(t) = SubSeq(s, n + 1, Len(s))
<1> DEFINE t == SubSeq(s, n, Len(s))
<1>1. t \in Seq(S) /\ Len(t) = Len(s) - n + 1 /\ \A i \in 1 .. Len(t) : t[i] = s[n + i - 1]
  OBVIOUS
<1> HIDE DEF t
<1>2. t # <<>> /\ Head(t) = s[n]
  <2>1. Len(t) >= 1 /\ t[1] = s[n]
    BY <1>1
  <2>2. Len(t) # 0
    BY <1>1, <2>1
  <2>3. t # <<>>
    BY <2>2, EmptySeq, Zenon
  <2> QED
    BY <1>1, <2>1, <2>3, HeadTailProperties
<1>3. Tail(t) \in Seq(S) /\ Len(Tail(t)) = Len(s) - n
      /\ \A i \in 1 .. Len(Tail(t)) : Tail(t)[i] = s[n + i]
  BY <1>1, <1>2, HeadTailProperties
<1>4. CASE n < Len(s)
  <2>1. SubSeq(s, n + 1, Len(s)) \in Seq(S) /\ Len(SubSeq(s, n + 1, Len(s))) = Len(s) - n
        /\ \A i \in 1 .. Len(s) - n : SubSeq(s, n + 1, Len(s))[i] = s[n + i]
    BY <1>4
  <2>2. Tail(t) = SubSeq(s, n + 1, Len(s))
    BY <1>3, <2>1, SeqEqual
  <2> QED
    BY <1>1, <1>2, <2>2 DEF t
<1>5. CASE n = Len(s)
  <2>1. SubSeq(s, n + 1, Len(s)) = <<>>
    BY <1>5, SubSeqEmpty
  <2>2. Tail(t) = <<>>
    <3>1. Len(Tail(t)) = 0
      BY <1>3, <1>5
    <3> QED
      BY <1>3, <3>1, EmptySeq
  <2> QED
    BY <1>1, <1>2, <2>1, <2>2 DEF t
<1> QED
  BY <1>4, <1>5

-----------------------------------------------------------------------------
(* One step of a job. *)

(* The place of a job in its script when it runs this command. *)
LEMMA CommandAt ==
  ASSUME PipelineInv, NEW j \in Jobs, NEW command, Doing(j, command)
  PROVE  /\ kind[j] \in Kinds
         /\ \E n \in 1 .. Len(Script[kind[j]]) : Placed(j, n) /\ Script[kind[j]][n] = command
<1>1. kind[j] \in Kinds /\ \E n \in 1 .. Len(Script[kind[j]]) : Placed(j, n)
  BY DEF PipelineInv, OnTrack, Doing
<1>2. PICK n \in 1 .. Len(Script[kind[j]]) : Placed(j, n)
  BY <1>1
<1>3. Script[kind[j]] \in Seq(Commands)
  BY <1>1, ScriptType
<1>4. todo[j] = SubSeq(Script[kind[j]], n, Len(Script[kind[j]]))
  BY <1>2 DEF Placed
<1>5. Head(todo[j]) = Script[kind[j]][n]
  BY <1>3, <1>4, RestOfScript
<1> QED
  BY <1>1, <1>2, <1>5 DEF Doing

(* A command that is carried out brings the next one, or ends the job. *)
LEMMA ProceedMoves ==
  ASSUME TypeOK, NEW j \in Jobs, Running(j), kind[j] \in Kinds,
         NEW n \in 1 .. Len(Script[kind[j]]),
         todo[j] = SubSeq(Script[kind[j]], n, Len(Script[kind[j]])),
         Proceed(j)
  PROVE  /\ todo' \in [Jobs -> Seq(Commands)]
         /\ state' \in [Jobs -> {"idle", "running", "ok", "failed", "stopped"}]
         /\ state'[j] \in {"running", "ok"}
         /\ \A i \in Jobs \ {j} : todo'[i] = todo[i] /\ state'[i] = state[i]
         /\ state'[j] = "running" =>
              /\ n + 1 \in 1 .. Len(Script[kind[j]])
              /\ todo'[j] = SubSeq(Script[kind[j]], n + 1, Len(Script[kind[j]]))
<1> DEFINE s == Script[kind[j]]
<1>1. /\ s \in Seq(Commands) /\ Len(s) \in Nat
      /\ n \in 1 .. Len(s) /\ todo[j] = SubSeq(s, n, Len(s))
  BY ScriptType
<1> HIDE DEF s
<1>2. /\ todo[j] \in Seq(Commands) /\ todo[j] # <<>>
      /\ Len(todo[j]) = Len(s) - n + 1
      /\ Tail(todo[j]) = SubSeq(s, n + 1, Len(s))
  <2>1. LET t == SubSeq(s, n, Len(s))
        IN  /\ t \in Seq(Commands) /\ t # <<>>
            /\ Len(t) = Len(s) - n + 1
            /\ Tail(t) = SubSeq(s, n + 1, Len(s))
    BY <1>1, RestOfScript
  <2> QED
    BY <1>1, <2>1
<1>3. Tail(todo[j]) \in Seq(Commands)
  BY <1>2, HeadTailProperties
<1>4. todo' = [todo EXCEPT ![j] = Tail(todo[j])] /\ todo \in [Jobs -> Seq(Commands)]
  BY DEF Proceed, TypeOK
<1>5. state' = [state EXCEPT ![j] = IF Len(todo[j]) = 1 THEN "ok" ELSE "running"]
      /\ state \in [Jobs -> {"idle", "running", "ok", "failed", "stopped"}]
  BY DEF Proceed, TypeOK, Running
<1>6. todo' \in [Jobs -> Seq(Commands)] /\ todo'[j] = Tail(todo[j])
      /\ \A i \in Jobs \ {j} : todo'[i] = todo[i]
  BY <1>3, <1>4
<1>7. /\ state' \in [Jobs -> {"idle", "running", "ok", "failed", "stopped"}]
      /\ state'[j] \in {"running", "ok"}
      /\ \A i \in Jobs \ {j} : state'[i] = state[i]
      /\ state'[j] = "running" => Len(todo[j]) # 1
  BY <1>5
<1>8. Len(todo[j]) # 1 => n + 1 \in 1 .. Len(s)
  BY <1>1, <1>2
<1> QED
  BY <1>2, <1>6, <1>7, <1>8 DEF s

(* A step of a job either carries out its next command or ends the job     *)
(* where it is; nothing private to the other jobs changes.                 *)
LEMMA StepShape ==
  ASSUME NEW j \in Jobs, Step(j)
  PROVE  /\ Running(j)
         /\ UNCHANGED <<file, kind, stamp, disturbed>>
         /\ \/ Proceed(j)
            \/ UNCHANGED todo /\ \E end \in {"failed", "stopped"} : state' = [state EXCEPT ![j] = end]
<1> USE DEF Doing, Refuse, tree
<1>1. CASE Clean(j)
  BY <1>1 DEF Clean
<1>2. CASE Make(j)
  BY <1>2 DEF Make
<1>3. CASE CheckArtifacts(j)
  BY <1>3 DEF CheckArtifacts
<1>4. CASE CopyRelease(j)
  BY <1>4 DEF CopyRelease
<1>5. ASSUME NEW newer \in {0, 1}, ResolveRelease(j, newer)
      PROVE  /\ Running(j)
             /\ UNCHANGED <<file, kind, stamp, disturbed>>
             /\ Proceed(j) \/ Refuse(j)
  BY <1>5 DEF ResolveRelease
<1>6. CASE ParseConfig(j)
  BY <1>6 DEF ParseConfig
<1>7. CASE OpenSource(j)
  BY <1>7 DEF OpenSource
<1>8. CASE WriteSource(j)
  BY <1>8 DEF WriteSource
<1>9. CASE ReadSource(j)
  BY <1>9 DEF ReadSource
<1>10. CASE WriteObject(j)
  BY <1>10 DEF WriteObject
<1>11. ASSUME NEW i \in Interfaces, Load(j, i)
      PROVE  /\ Running(j)
             /\ UNCHANGED <<file, kind, stamp, disturbed>>
             /\ Proceed(j) \/ Refuse(j)
  BY <1>11 DEF Load
<1>12. CASE CloseSource(j)
  BY <1>12 DEF CloseSource
<1> QED
  BY <1>1, <1>2, <1>3, <1>4, <1>5, <1>6, <1>7, <1>8, <1>9, <1>10, <1>11, <1>12 DEF Step

(* What a step does to the progress of all jobs. *)
LEMMA StepProgress ==
  ASSUME PipelineInv, NEW j \in Jobs, Step(j)
  PROVE  /\ kind[j] \in Kinds
         /\ todo' \in [Jobs -> Seq(Commands)]
         /\ state' \in [Jobs -> {"idle", "running", "ok", "failed", "stopped"}]
         /\ state'[j] # "idle"
         /\ \A i \in Jobs \ {j} : todo'[i] = todo[i] /\ state'[i] = state[i]
         /\ \E n \in 1 .. Len(Script[kind[j]]) :
              /\ Placed(j, n)
              /\ Running(j)' => /\ n + 1 \in 1 .. Len(Script[kind[j]])
                                /\ todo'[j] = SubSeq(Script[kind[j]], n + 1, Len(Script[kind[j]]))
<1>1. Running(j) /\ TypeOK
  BY StepShape DEF PipelineInv
<1>2. kind[j] \in Kinds /\ \E n \in 1 .. Len(Script[kind[j]]) : Placed(j, n)
  BY <1>1 DEF PipelineInv, OnTrack
<1>3. PICK n \in 1 .. Len(Script[kind[j]]) : Placed(j, n)
  BY <1>2
<1>4. todo[j] = SubSeq(Script[kind[j]], n, Len(Script[kind[j]]))
  BY <1>3 DEF Placed
<1>5. CASE Proceed(j)
  BY <1>1, <1>2, <1>3, <1>4, <1>5, ProceedMoves DEF Running
<1>6. CASE UNCHANGED todo /\ \E end \in {"failed", "stopped"} : state' = [state EXCEPT ![j] = end]
  BY <1>1, <1>2, <1>3, <1>6 DEF TypeOK, Running
<1> QED
  BY <1>5, <1>6, StepShape

(* What clang makes of a text. *)
LEMMA CompiledType ==
  ASSUME NEW t \in Texts, NEW o \in CompiledTo(t)
  PROVE  /\ o \in Programs \cup {Nothing}
         /\ t[2] \in {None, t[1]} => o[1] = o[2]
         /\ \A c \in Configs : t \in Written(c) => o \in {Nothing, <<c, c>>}
<1>1. /\ o \in Programs \cup {Nothing}
      /\ \/ o = t
         \/ t[2] = None /\ o \in {Nothing, <<t[1], t[1]>>}
  BY DEF CompiledTo
<1>2. None \notin Configs
  BY PipelineAssumption
<1>3. CASE o = t
  <2>1. t[2] \in {None, t[1]} => t[1] = t[2]
    BY <1>1, <1>2, <1>3 DEF Programs, Nothing
  <2>2. \A c \in Configs : t \in Written(c) => t = <<c, c>>
    BY <1>1, <1>2, <1>3 DEF Programs, Nothing, Written
  <2> QED
    BY <1>1, <1>3, <2>1, <2>2
<1>4. CASE t[2] = None /\ o \in {Nothing, <<t[1], t[1]>>}
  <2>1. o[1] = o[2]
    BY <1>4 DEF Nothing
  <2>2. \A c \in Configs : t \in Written(c) => t[1] = c
    BY DEF Written
  <2> QED
    BY <1>1, <1>4, <2>1, <2>2
<1> QED
  BY <1>1, <1>3, <1>4

(* An open file has two parts. *)
LEMMA SourceParts ==
  ASSUME PipelineInv, NEW j \in Jobs, opened[j]
  PROVE  source \in Texts /\ source = <<source[1], source[2]>>
         /\ source[1] \in Part /\ source[2] \in Part
<1>1. source \in Texts
  BY DEF PipelineInv, TypeOK, Present
<1> QED
  BY <1>1 DEF Texts

(* What a job has parsed before it opens the source or loads. *)
LEMMA HasParsed ==
  ASSUME PipelineInv, NEW j \in Jobs,
         NEW command \in Users, Doing(j, command)
  PROVE  cfg[j] \in Configs
<1>1. kind[j] \in Kinds
  BY CommandAt
<1>2. PICK n \in 1 .. Len(Script[kind[j]]) : Placed(j, n) /\ Script[kind[j]][n] = command
  BY CommandAt
<1>3. kind[j] \in DOMAIN Script
  BY <1>1, PipelineAssumption
<1>4. \E m \in 1 .. n - 1 : Script[kind[j]][m] = "parse"
  BY <1>2, <1>3, ScriptShape DEF InOrder
<1> QED
  BY <1>2, <1>4 DEF Placed, Before

(* What clang compiles. *)
LEMMA SeenType ==
  ASSUME PipelineInv, NEW j \in Jobs, Doing(j, "write_object")
  PROVE  text[j] \in Texts /\ Seen(j) \subseteq Texts
<1>1. kind[j] \in Kinds
  BY CommandAt
<1>2. PICK n \in 1 .. Len(Script[kind[j]]) : Placed(j, n) /\ Script[kind[j]][n] = "write_object"
  BY CommandAt
<1>3. kind[j] \in DOMAIN Script
  BY <1>1, PipelineAssumption
<1>4. n > 1 /\ Script[kind[j]][n - 1] = "read_source"
  BY <1>2, <1>3, ScriptShape DEF InOrder
<1>5. text[j] \in Texts
  BY <1>2, <1>4 DEF Placed, After
<1>6. text[j][1] \in Part
  BY <1>5 DEF Texts
<1>7. opened[j] => <<text[j][1], source[2]>> \in Texts
  BY <1>6, SourceParts DEF Texts
<1> QED
  BY <1>5, <1>7 DEF Seen

(* Every step of a job keeps the types. *)
LEMMA StepType ==
  ASSUME PipelineInv, NEW j \in Jobs, Step(j)
  PROVE  TypeOK'
<1>1. TypeOK
  BY DEF PipelineInv
<1>2. /\ todo' \in [Jobs -> Seq(Commands)]
      /\ state' \in [Jobs -> {"idle", "running", "ok", "failed", "stopped"}]
  BY StepProgress
<1>3. UNCHANGED <<file, kind, stamp, disturbed>>
  BY StepShape
<1> SUFFICES /\ zerehctl' \in BOOLEAN /\ outDir' \in BOOLEAN
             /\ source' \in Texts \cup {None}
             /\ object' \in Programs \cup {None, Nothing}
             /\ releases' \subseteq Release
             /\ loaded' \in [Interfaces -> Attached \cup {None}]
             /\ from' \in [Jobs -> Release \cup {None}]
             /\ cfg' \in [Jobs -> Configs \cup {None}]
             /\ opened' \in [Jobs -> BOOLEAN]
             /\ text' \in [Jobs -> Texts \cup {None}]
             /\ crossed' \in BOOLEAN
  BY <1>1, <1>2, <1>3 DEF TypeOK
<1>4. CASE Clean(j)
  BY <1>1, <1>4 DEF TypeOK, Clean
<1>5. CASE Make(j)
  BY <1>1, <1>5 DEF TypeOK, Make
<1>6. CASE CheckArtifacts(j)
  BY <1>1, <1>6 DEF TypeOK, CheckArtifacts, tree
<1>7. CASE CopyRelease(j)
  <2>1. [stamp |-> stamp[j], config |-> file, object |-> object] \in Release
    BY <1>1 DEF TypeOK, Release
  <2> QED
    BY <1>1, <1>7, <2>1 DEF TypeOK, CopyRelease
<1>8. ASSUME NEW newer \in {0, 1}, ResolveRelease(j, newer)
      PROVE  UNCHANGED <<tree, cfg, opened, text, crossed>> /\ from' \in [Jobs -> Release \cup {None}]
  BY <1>1, <1>8 DEF TypeOK, ResolveRelease
<1>9. CASE ParseConfig(j)
  <2>1. (IF from[j] = None THEN file ELSE from[j].config) \in Configs
    BY <1>1 DEF TypeOK, Release
  <2>2. cfg' \in [Jobs -> Configs \cup {None}]
    BY <1>1, <1>9, <2>1 DEF TypeOK, ParseConfig
  <2> QED
    BY <1>1, <1>9, <2>2 DEF TypeOK, ParseConfig, tree
<1>10. CASE OpenSource(j)
  <2>1. Nothing \in Texts
    BY DEF Nothing, Texts, Part
  <2>2. crossed' \in BOOLEAN
    BY <1>1, <1>10 DEF TypeOK, OpenSource, OthersHaveItOpen, Running
  <2> QED
    BY <1>1, <1>10, <2>1, <2>2 DEF TypeOK, OpenSource
<1>11. CASE WriteSource(j)
  <2>1. cfg[j] \in Configs
    BY <1>11, HasParsed DEF WriteSource, Users
  <2>2. opened[j] => <<cfg[j], source[2]>> \in Texts
    BY <2>1, SourceParts DEF Texts, Part
  <2> QED
    BY <1>1, <1>11, <2>2 DEF TypeOK, WriteSource
<1>12. CASE ReadSource(j)
  BY <1>1, <1>12 DEF TypeOK, ReadSource, tree
<1>13. CASE WriteObject(j)
  <2>1. \A t \in Seen(j) : CompiledTo(t) \subseteq Programs \cup {Nothing}
    BY <1>13, SeenType, CompiledType DEF WriteObject
  <2>2. object' \in Programs \cup {None, Nothing}
    BY <1>1, <1>13, <2>1 DEF TypeOK, WriteObject
  <2> QED
    BY <1>1, <1>13, <2>2 DEF TypeOK, WriteObject
<1>14. ASSUME NEW i \in Interfaces, Load(j, i)
       PROVE  /\ UNCHANGED <<zerehctl, outDir, source, object, releases, from, cfg, opened, text, crossed>>
              /\ loaded' \in [Interfaces -> Attached \cup {None}]
  <2>1. cfg[j] \in Configs
    BY <1>14, HasParsed DEF Load, Users
  <2>2. CASE Loadable
    <3>1. [prog |-> object, seeds |-> cfg[j], by |-> j] \in Attached
      BY <1>1, <2>1, <2>2 DEF TypeOK, Loadable, Attached
    <3> QED
      BY <1>1, <1>14, <2>2, <3>1 DEF TypeOK, Load
  <2>3. CASE ~Loadable
    BY <1>1, <1>14, <2>3 DEF TypeOK, Load
  <2> QED
    BY <2>2, <2>3
<1>15. CASE \E newer \in {0, 1} : ResolveRelease(j, newer)
  BY <1>1, <1>8, <1>15 DEF TypeOK, tree
<1>16. CASE \E i \in Interfaces : Load(j, i)
  BY <1>1, <1>14, <1>16 DEF TypeOK
<1>17. CASE CloseSource(j)
  <2>1. cfg[j] \in Configs
    BY <1>17, HasParsed DEF CloseSource, Users
  <2>2. opened[j] => <<source[1], cfg[j]>> \in Texts
    BY <2>1, SourceParts DEF Texts, Part
  <2>3. source' \in Texts \cup {None}
    BY <1>1, <1>17, <2>2 DEF TypeOK, CloseSource
  <2> QED
    BY <1>1, <1>17, <2>3 DEF TypeOK, CloseSource
<1> QED
  BY <1>4, <1>5, <1>6, <1>7, <1>9, <1>10, <1>11, <1>12, <1>13, <1>15, <1>16, <1>17 DEF Step

(* A step that has the source open leaves it there. *)
LEMMA StepPresent ==
  ASSUME PipelineInv, NEW j \in Jobs, Step(j)
  PROVE  Present'
<1> SUFFICES ASSUME NEW i \in Jobs, opened'[i] PROVE source' # None
  BY DEF Present
<1>1. TypeOK /\ TypeOK' /\ Present /\ None \notin Texts
  BY StepType, PipelineAssumption DEF PipelineInv
<1>2. CASE Clean(j)
  BY <1>2 DEF Clean
<1>3. CASE OpenSource(j)
  <2>1. Nothing # None
    BY <1>1 DEF Nothing, Texts, Part
  <2> QED
    BY <1>1, <1>3, <2>1 DEF OpenSource, Present
<1>4. CASE WriteSource(j)
  <2>1. opened[i] /\ cfg[j] \in Configs
    BY <1>4, HasParsed DEF WriteSource, Users
  <2>2. <<cfg[j], source[2]>> \in Texts
    BY <2>1, SourceParts DEF Texts, Part
  <2> QED
    BY <1>1, <1>4, <2>1, <2>2 DEF WriteSource, Present
<1>5. CASE CloseSource(j)
  <2>1. cfg[j] \in Configs
    BY <1>5, HasParsed DEF CloseSource, Users
  <2>2. opened[i]
    BY <1>1, <1>5 DEF CloseSource, TypeOK
  <2>3. <<source[1], cfg[j]>> \in Texts
    BY <2>1, <2>2, SourceParts DEF Texts, Part
  <2> QED
    BY <1>1, <1>5, <2>2, <2>3 DEF CloseSource, Present
<1>6. CASE ReadSource(j)
  BY <1>1, <1>6 DEF ReadSource, Present, TypeOK, tree
<1>7. CASE WriteObject(j)
  BY <1>1, <1>7 DEF WriteObject, Present, TypeOK
<1>8. CASE UNCHANGED <<source, opened>>
  BY <1>1, <1>8 DEF Present
<1> QED
  BY <1>2, <1>3, <1>4, <1>5, <1>6, <1>7, <1>8
     DEF Step, Make, CheckArtifacts, CopyRelease, ResolveRelease, ParseConfig, Load, tree

(* The places of a job before and after a step. *)
LEMMA BeforeNext ==
  ASSUME NEW j \in Jobs, kind[j] \in Kinds, NEW n \in 1 .. Len(Script[kind[j]]),
         UNCHANGED kind, NEW command
  PROVE  /\ Before(j, n + 1, command)' <=> Before(j, n, command) \/ Script[kind[j]][n] = command
         /\ After(j, n + 1, command)' <=> Script[kind[j]][n] = command
<1>1. n \in Nat \ {0}
  BY ScriptType
<1>2. 1 .. (n + 1) - 1 = (1 .. n - 1) \cup {n} /\ n + 1 > 1 /\ (n + 1) - 1 = n
  BY <1>1
<1> QED
  BY <1>2 DEF Before, After

(* While a job runs undisturbed, no other job runs, so nothing changes the *)
(* files it works on: whatever step it takes, it stays faithful.           *)
LEMMA StepFaithful ==
  ASSUME PipelineInv, NEW j \in Jobs, Step(j), kind[j] \in Kinds,
         NEW n \in 1 .. Len(Script[kind[j]]),
         Placed(j, n), Running(j)', ~disturbed[j]
  PROVE  Faithful(j, n + 1)'
<1> DEFINE s == Script[kind[j]]
<1>1. /\ TypeOK /\ Faithful(j, n)
      /\ UNCHANGED <<file, kind, disturbed>> /\ Running(j) /\ Proceed(j)
  <2>1. UNCHANGED <<file, kind, disturbed>> /\ Running(j) /\ TypeOK
    BY StepShape DEF PipelineInv
  <2>2. Proceed(j)
    BY StepShape, <2>1 DEF Running, TypeOK
  <2> QED
    BY <2>1, <2>2 DEF Placed
<1>2. InOrder(s)
  BY ScriptShape, PipelineAssumption
<1>3. ASSUME NEW command, Doing(j, command) PROVE s[n] = command
  <2>1. s \in Seq(Commands) /\ todo[j] = SubSeq(s, n, Len(s))
    BY ScriptType DEF Placed
  <2>2. Head(SubSeq(s, n, Len(s))) = s[n]
    BY <2>1, RestOfScript
  <2> QED
    BY <1>3, <2>1, <2>2 DEF Doing
<1>4. ASSUME NEW command
      PROVE  /\ Before(j, n + 1, command)' <=> Before(j, n, command) \/ s[n] = command
             /\ After(j, n + 1, command)' <=> s[n] = command
  BY <1>1, BeforeNext
<1>5. n = 1 => ~Before(j, n, "parse") /\ ~Before(j, n, "write_object")
  BY DEF Before
<1>6. /\ s[n] \in Users => Before(j, n, "parse")
      /\ s[n] = "write_source" => After(j, n, "open_source")
      /\ s[n] = "close_source" => After(j, n, "write_source")
      /\ s[n] = "read_source" => After(j, n, "close_source")
      /\ s[n] = "write_object" => After(j, n, "read_source")
      /\ s[n] \in {"clean", "resolve"} => n = 1
  BY <1>2 DEF InOrder, Before, After
<1> HIDE DEF s
<1> DEFINE Goal ==
      /\ Before(j, n, "parse") \/ s[n] = "parse" => cfg'[j] = Wanted(j)'
      /\ s[n] = "open_source" => opened'[j] /\ source' = Nothing
      /\ s[n] = "write_source" => opened'[j] /\ source' = <<cfg'[j], None>>
      /\ s[n] = "close_source" => source' \in Written(cfg'[j])
      /\ s[n] = "read_source" => text'[j] \in Written(cfg'[j]) /\ source' = text'[j]
      /\ Before(j, n, "write_object") \/ s[n] = "write_object" =>
           object' \in {Nothing, <<Wanted(j)', Wanted(j)'>>}
<1> SUFFICES Goal
  BY <1>4 DEF Faithful, Written
<1>7. /\ Before(j, n, "parse") => cfg[j] = Wanted(j)
      /\ After(j, n, "open_source") => opened[j] /\ source = Nothing
      /\ After(j, n, "write_source") => opened[j] /\ source = <<cfg[j], None>>
      /\ After(j, n, "close_source") => source \in Written(cfg[j])
      /\ After(j, n, "read_source") => text[j] \in Written(cfg[j]) /\ source = text[j]
      /\ Before(j, n, "write_object") => object \in {Nothing, <<Wanted(j), Wanted(j)>>}
      /\ Before(j, n, "parse") => cfg[j] \in Configs
  BY <1>1 DEF Faithful, Placed
<1>8. from' = from => Wanted(j)' = Wanted(j)
  BY <1>1 DEF Wanted
<1>9. CASE Clean(j)
  BY <1>3, <1>5, <1>6, <1>9 DEF Clean
<1>10. CASE Make(j)
  BY <1>3, <1>7, <1>8, <1>10 DEF Make
<1>11. CASE CheckArtifacts(j)
  BY <1>3, <1>7, <1>8, <1>11 DEF CheckArtifacts, tree
<1>12. CASE CopyRelease(j)
  BY <1>3, <1>7, <1>8, <1>12 DEF CopyRelease
<1>13. ASSUME NEW newer \in {0, 1}, ResolveRelease(j, newer) PROVE Goal
  BY <1>3, <1>5, <1>6, <1>13 DEF ResolveRelease
<1>14. CASE ParseConfig(j)
  <2>1. s[n] = "parse" /\ UNCHANGED <<object, from>>
    BY <1>3, <1>14 DEF ParseConfig, tree
  <2>2. cfg'[j] = Wanted(j)
    BY <1>1, <1>14 DEF ParseConfig, TypeOK, Wanted, Running, Refuse
  <2> QED
    BY <1>7, <1>8, <2>1, <2>2
<1>15. CASE OpenSource(j)
  <2>1. s[n] = "open_source" /\ UNCHANGED <<object, from, cfg>>
    BY <1>3, <1>15 DEF OpenSource
  <2>2. opened'[j] /\ source' = Nothing
    BY <1>1, <1>15 DEF OpenSource, TypeOK, Running, Refuse
  <2> QED
    BY <1>7, <1>8, <2>1, <2>2
<1>16. CASE WriteSource(j)
  <2>1. s[n] = "write_source" /\ UNCHANGED <<object, from, cfg>>
    BY <1>3, <1>16 DEF WriteSource
  <2>2. opened[j] /\ source = Nothing
    BY <1>6, <1>7, <2>1
  <2>3. opened'[j] /\ source' = <<cfg[j], None>>
    BY <1>16, <2>2 DEF WriteSource, Nothing
  <2> QED
    BY <1>7, <1>8, <2>1, <2>3
<1>17. CASE ReadSource(j)
  <2>1. s[n] = "read_source" /\ UNCHANGED <<object, from, cfg>>
    BY <1>3, <1>17 DEF ReadSource, tree
  <2>2. source \in Written(cfg[j])
    BY <1>6, <1>7, <2>1
  <2>3. text'[j] = source /\ source' = source
    BY <1>1, <1>17 DEF ReadSource, TypeOK, tree
  <2> QED
    BY <1>7, <1>8, <2>1, <2>2, <2>3
<1>18. CASE WriteObject(j)
  <2>1. s[n] = "write_object" /\ UNCHANGED <<from, cfg>>
    BY <1>3, <1>18 DEF WriteObject
  <2>2. \E t \in Seen(j) : object' \in CompiledTo(t)
    BY <1>1, <1>18 DEF WriteObject, TypeOK, Running, Refuse
  <2>3. text[j] \in Written(cfg[j]) /\ source = text[j] /\ cfg[j] = Wanted(j) /\ cfg[j] \in Configs
    BY <1>6, <1>7, <2>1 DEF Users
  <2>4. text[j] \in Texts
    BY <1>18, SeenType DEF WriteObject
  <2>5. Seen(j) = {text[j]}
    <3>1. <<text[j][1], source[2]>> = text[j]
      BY <2>3, <2>4 DEF Texts
    <3> QED
      BY <3>1 DEF Seen
  <2>6. object' \in {Nothing, <<cfg[j], cfg[j]>>}
    BY <2>2, <2>3, <2>4, <2>5, CompiledType
  <2> QED
    BY <1>8, <2>1, <2>3, <2>6
<1>19. ASSUME NEW i \in Interfaces, Load(j, i) PROVE Goal
  <2>1. s[n] \in {"load", "load_canary"}
    BY <1>3, <1>19 DEF Load
  <2> QED
    BY <1>7, <1>8, <1>19, <2>1 DEF Load
<1>20. CASE CloseSource(j)
  <2>1. s[n] = "close_source" /\ UNCHANGED <<object, from, cfg>>
    BY <1>3, <1>20 DEF CloseSource
  <2>2. source = <<cfg[j], None>>
    BY <1>6, <1>7, <2>1
  <2>3. source' \in Written(cfg[j])
    BY <1>20, <2>2 DEF CloseSource, Written
  <2> QED
    BY <1>7, <1>8, <2>1, <2>3
<1> QED
  BY <1>9, <1>10, <1>11, <1>12, <1>13, <1>14, <1>15, <1>16, <1>17, <1>18, <1>19, <1>20 DEF Step

(* Only a parse command changes what a job has parsed, and then to a       *)
(* configuration.                                                          *)
LEMMA StepParsed ==
  ASSUME PipelineInv, NEW j \in Jobs, Step(j)
  PROVE  /\ \A i \in Jobs \ {j} : cfg'[i] = cfg[i]
         /\ Running(j)' => \/ cfg'[j] \in Configs
                           \/ cfg'[j] = cfg[j] /\ ~Doing(j, "parse")
<1>1. TypeOK /\ TypeOK'
  BY StepType DEF PipelineInv
<1>2. CASE ParseConfig(j)
  <2>1. (IF from[j] = None THEN file ELSE from[j].config) \in Configs
    BY <1>1 DEF TypeOK, Release
  <2> QED
    BY <1>1, <1>2, <2>1 DEF TypeOK, ParseConfig, Running, Refuse
<1>3. CASE ~ParseConfig(j)
  <2>1. cfg' = cfg /\ ~Doing(j, "parse")
    BY <1>3 DEF Step, Doing, Clean, Make, CheckArtifacts, CopyRelease, ResolveRelease,
                OpenSource, WriteSource, CloseSource, ReadSource, WriteObject, Load
  <2> QED
    BY <2>1
<1> QED
  BY <1>2, <1>3

(* Only clang reads, and finds a file. *)
LEMMA StepRead ==
  ASSUME PipelineInv, NEW j \in Jobs, Step(j)
  PROVE  /\ \A i \in Jobs \ {j} : text'[i] = text[i]
         /\ Running(j)' /\ Doing(j, "read_source") => text'[j] \in Texts
<1>1. TypeOK
  BY DEF PipelineInv
<1>2. CASE ReadSource(j)
  <2>1. Running(j)' => source # None
    BY <1>1, <1>2 DEF ReadSource, Refuse, Running, TypeOK
  <2> QED
    BY <1>1, <1>2, <2>1 DEF ReadSource, TypeOK
<1>3. CASE ~ReadSource(j)
  <2>1. text' = text /\ ~Doing(j, "read_source")
    BY <1>3 DEF Step, Doing, Clean, Make, CheckArtifacts, CopyRelease, ResolveRelease,
                ParseConfig, OpenSource, WriteSource, CloseSource, WriteObject, Load
  <2> QED
    BY <2>1
<1> QED
  BY <1>2, <1>3

(* A step keeps every job on its track. *)
LEMMA StepOnTrack ==
  ASSUME PipelineInv, NEW j \in Jobs, Step(j)
  PROVE  OnTrack'
<1>1. UNCHANGED <<kind, disturbed>> /\ Running(j) /\ kind[j] \in Kinds
      /\ \A i \in Jobs \ {j} : todo'[i] = todo[i] /\ state'[i] = state[i]
  BY StepShape, StepProgress
<1>2. ASSUME Running(j)'
      PROVE  \E n \in 1 .. Len(Script[kind[j]]) : Placed(j, n)'
  <2>1. PICK n \in 1 .. Len(Script[kind[j]]) :
          /\ Placed(j, n)
          /\ n + 1 \in 1 .. Len(Script[kind[j]])
          /\ todo'[j] = SubSeq(Script[kind[j]], n + 1, Len(Script[kind[j]]))
    BY <1>2, StepProgress
  <2>2. ~disturbed'[j] => Faithful(j, n + 1)'
    BY <1>1, <1>2, <2>1, StepFaithful
  <2>3. Before(j, n + 1, "parse")' => cfg'[j] \in Configs
    <3>1. Before(j, n + 1, "parse")' <=> Before(j, n, "parse") \/ Script[kind[j]][n] = "parse"
      BY <1>1, BeforeNext
    <3>2. Head(todo[j]) = Script[kind[j]][n] /\ todo[j] # <<>>
      <4>1. Script[kind[j]] \in Seq(Commands)
        BY <1>1, ScriptType
      <4>2. todo[j] = SubSeq(Script[kind[j]], n, Len(Script[kind[j]]))
        BY <2>1 DEF Placed
      <4> QED
        BY <4>1, <4>2, RestOfScript
    <3>3. Script[kind[j]][n] = "parse" => Doing(j, "parse")
      BY <1>1, <3>2 DEF Doing
    <3>4. cfg'[j] \in Configs \/ (cfg'[j] = cfg[j] /\ ~Doing(j, "parse"))
      BY <1>2, StepParsed
    <3>5. Before(j, n, "parse") => cfg[j] \in Configs
      BY <2>1 DEF Placed
    <3> QED
      BY <3>1, <3>3, <3>4, <3>5
  <2>4. After(j, n + 1, "read_source")' => text'[j] \in Texts
    <3>1. After(j, n + 1, "read_source")' <=> Script[kind[j]][n] = "read_source"
      BY <1>1, BeforeNext
    <3>2. Script[kind[j]] \in Seq(Commands)
          /\ todo[j] = SubSeq(Script[kind[j]], n, Len(Script[kind[j]]))
      BY <1>1, <2>1, ScriptType DEF Placed
    <3>3. Head(todo[j]) = Script[kind[j]][n] /\ todo[j] # <<>>
      BY <3>2, RestOfScript
    <3> QED
      BY <1>1, <1>2, <3>1, <3>3, StepRead DEF Doing
  <2>5. Placed(j, n + 1)'
    BY <1>1, <2>1, <2>2, <2>3, <2>4 DEF Placed
  <2> QED
    BY <2>1, <2>5
<1>3. ASSUME NEW i \in Jobs \ {j}, Running(i)'
      PROVE  kind[i] \in Kinds /\ \E n \in 1 .. Len(Script[kind[i]]) : Placed(i, n)'
  <2>1. Running(i) /\ disturbed[i]
    BY <1>1, <1>3 DEF Running, PipelineInv, Alone
  <2>2. kind[i] \in Kinds /\ \E n \in 1 .. Len(Script[kind[i]]) : Placed(i, n)
    BY <2>1 DEF PipelineInv, OnTrack
  <2>3. PICK n \in 1 .. Len(Script[kind[i]]) : Placed(i, n)
    BY <2>2
  <2>4. cfg'[i] = cfg[i] /\ text'[i] = text[i]
    BY StepParsed, StepRead
  <2>5. Placed(i, n)'
    BY <1>1, <2>1, <2>3, <2>4 DEF Placed, Before, After
  <2> QED
    BY <2>2, <2>5
<1> QED
  BY <1>1, <1>2, <1>3 DEF OnTrack

-----------------------------------------------------------------------------
(* The invariant. *)

(* A step keeps the invariant. *)
LEMMA StepInv ==
  ASSUME PipelineInv, NEW j \in Jobs, Step(j)
  PROVE  PipelineInv'
<1>1. /\ UNCHANGED <<kind, disturbed>> /\ Running(j)
      /\ state'[j] # "idle"
      /\ \A i \in Jobs \ {j} : state'[i] = state[i]
      /\ TypeOK
  BY StepShape, StepProgress DEF PipelineInv
<1>2. Started' = Started
  BY <1>1 DEF Started, Running
<1>3. Alone'
  BY <1>1 DEF Alone, PipelineInv, Running
<1>4. ASSUME NEW i \in Interfaces, loaded'[i] # None
      PROVE  state'[loaded'[i].by] # "idle"
  <2>1. loaded' \in [Interfaces -> Attached \cup {None}]
    BY StepType DEF TypeOK
  <2>2. loaded'[i] = loaded[i] \/ loaded'[i].by = j
    <3>1. UNCHANGED loaded \/ \E h \in Interfaces : Load(j, h)
      BY DEF Step, Clean, Make, CheckArtifacts, CopyRelease, ResolveRelease, ParseConfig,
             OpenSource, WriteSource, CloseSource, ReadSource, WriteObject, tree
    <3>2. loaded \in [Interfaces -> Attached \cup {None}]
      BY <1>1 DEF TypeOK
    <3>3. ASSUME NEW h \in Interfaces, Load(j, h)
          PROVE  loaded'[i] = loaded[i] \/ loaded'[i].by = j
      BY <3>2, <3>3 DEF Load
    <3> QED
      BY <3>1, <3>3
  <2>3. loaded'[i].by \in Jobs
    BY <1>4, <2>1 DEF Attached
  <2> QED
    BY <1>1, <1>4, <2>2, <2>3 DEF PipelineInv, ByStarted
<1> QED
  BY <1>2, <1>3, <1>4, StepType, StepOnTrack, StepPresent DEF PipelineInv, ByStarted

(* A job that starts begins with the first command of its script, and      *)
(* disturbs whoever runs.                                                  *)
LEMMA StartInv ==
  ASSUME PipelineInv, NEW j \in Jobs, NEW k \in Kinds, NEW throughMake \in BOOLEAN,
         Start(j, k, throughMake)
  PROVE  PipelineInv'
<1>1. TypeOK /\ state[j] = "idle"
  BY DEF PipelineInv, Start
<1>2. Script[k] \in Seq(Commands) /\ Len(Script[k]) \in Nat \ {0} /\ 1 \in 1 .. Len(Script[k])
  BY ScriptType
<1>3. Cardinality(Started) \in Nat
  BY FS_CardinalityType DEF PipelineInv
<1>4. TypeOK'
  <2>1. /\ state' \in [Jobs -> {"idle", "running", "ok", "failed", "stopped"}]
        /\ kind' \in [Jobs -> Kinds \cup {None}]
        /\ todo' \in [Jobs -> Seq(Commands)]
        /\ stamp' \in [Jobs -> Nat]
    BY <1>1, <1>2, <1>3 DEF Start, TypeOK
  <2>2. zerehctl' \in BOOLEAN /\ outDir' \in BOOLEAN
    BY <1>1 DEF Start, TypeOK
  <2>3. disturbed' \in [Jobs -> BOOLEAN]
    BY <1>1 DEF Start, TypeOK, Running
  <2> QED
    BY <1>1, <2>1, <2>2, <2>3 DEF Start, TypeOK
<1>5. /\ state'[j] = "running" /\ kind'[j] = k /\ todo'[j] = Script[k]
      /\ \A i \in Jobs \ {j} : state'[i] = state[i] /\ kind'[i] = kind[i] /\ todo'[i] = todo[i]
      /\ UNCHANGED <<cfg, loaded, source, opened, text>>
  BY <1>1 DEF Start, TypeOK
<1>6. \A i \in Jobs \ {j} : Running(i) => disturbed'[i] /\ disturbed'[j]
  BY DEF Start
<1>7. IsFiniteSet(Started')
  <2>1. Started' = Started \cup {j}
    BY <1>5 DEF Started
  <2> QED
    BY <2>1, FS_AddElement DEF PipelineInv
<1>8. OnTrack'
  <2>1. Placed(j, 1)'
    <3>1. SubSeq(Script[k], 1, Len(Script[k])) = Script[k]
      BY <1>2, SubSeqFull
    <3>2. \A command : ~Before(j, 1, command)' /\ ~After(j, 1, command)'
      BY DEF Before, After
    <3>3. Faithful(j, 1)'
      BY <3>2 DEF Faithful
    <3> QED
      BY <1>5, <3>1, <3>2, <3>3 DEF Placed
  <2>2. kind'[j] \in Kinds /\ 1 \in 1 .. Len(Script[kind'[j]])
    BY <1>2, <1>5, Zenon
  <2>3. ASSUME NEW i \in Jobs \ {j}, Running(i)'
        PROVE  kind'[i] \in Kinds /\ \E n \in 1 .. Len(Script[kind'[i]]) : Placed(i, n)'
    <3>1. Running(i) /\ disturbed'[i]
      BY <1>5, <1>6, <2>3 DEF Running
    <3>2. kind[i] \in Kinds /\ \E n \in 1 .. Len(Script[kind[i]]) : Placed(i, n)
      BY <3>1 DEF PipelineInv, OnTrack
    <3>3. PICK n \in 1 .. Len(Script[kind[i]]) : Placed(i, n)
      BY <3>2
    <3>4. Placed(i, n)'
      BY <1>5, <3>1, <3>3 DEF Placed, Before, After
    <3> QED
      BY <1>5, <3>2, <3>4
  <2> QED
    BY <2>1, <2>2, <2>3 DEF OnTrack
<1>9. Alone'
  <2> SUFFICES ASSUME NEW i \in Jobs, NEW r \in Jobs, Running(i)', Running(r)', i # r
               PROVE  disturbed'[i]
    BY DEF Alone
  <2>1. CASE i = j
    BY <1>5, <1>6, <2>1 DEF Running
  <2>2. CASE i # j
    BY <1>5, <1>6, <2>2 DEF Running
  <2> QED
    BY <2>1, <2>2
<1>10. ByStarted'
  <2> SUFFICES ASSUME NEW i \in Interfaces, loaded'[i] # None
               PROVE  state'[loaded'[i].by] # "idle"
    BY DEF ByStarted
  <2>1. loaded \in [Interfaces -> Attached \cup {None}] /\ loaded[i] # None
    BY <1>1, <1>5 DEF TypeOK
  <2>2. loaded[i].by \in Jobs
    BY <2>1 DEF Attached
  <2>3. state[loaded[i].by] # "idle"
    BY <2>1 DEF PipelineInv, ByStarted
  <2> QED
    BY <1>5, <2>2, <2>3
<1>11. Present'
  BY <1>5 DEF PipelineInv, Present
<1> QED
  BY <1>4, <1>7, <1>8, <1>9, <1>10, <1>11 DEF PipelineInv

(* An edit of the configuration disturbs whoever runs. *)
LEMMA EditInv ==
  ASSUME PipelineInv, EditConfig
  PROVE  PipelineInv'
<1>1. /\ \A j \in Jobs : Running(j) => disturbed'[j]
      /\ \A j \in Jobs : disturbed[j] => disturbed'[j]
      /\ UNCHANGED <<state, kind, todo, cfg, loaded, source, opened, text>>
  BY DEF EditConfig
<1>2. TypeOK'
  BY DEF EditConfig, PipelineInv, TypeOK, Running
<1>3. OnTrack'
  <2> SUFFICES ASSUME NEW j \in Jobs, Running(j)'
               PROVE  kind[j] \in Kinds /\ \E n \in 1 .. Len(Script[kind[j]]) : Placed(j, n)'
    BY <1>1 DEF OnTrack
  <2>1. Running(j) /\ disturbed'[j]
    BY <1>1 DEF Running
  <2>2. kind[j] \in Kinds /\ \E n \in 1 .. Len(Script[kind[j]]) : Placed(j, n)
    BY <2>1 DEF PipelineInv, OnTrack
  <2>3. PICK n \in 1 .. Len(Script[kind[j]]) : Placed(j, n)
    BY <2>2
  <2>4. Placed(j, n)'
    BY <1>1, <2>1, <2>3 DEF Placed, Before, After
  <2> QED
    BY <2>2, <2>4
<1>4. Started' = Started
  BY <1>1 DEF Started
<1> QED
  BY <1>1, <1>2, <1>3, <1>4 DEF PipelineInv, Alone, ByStarted, Present, Running

(* A job that stops leaves everything as it is. *)
LEMMA StopInv ==
  ASSUME PipelineInv, NEW j \in Jobs, Stop(j)
  PROVE  PipelineInv'
<1>1. /\ state'[j] = "stopped" /\ Running(j)
      /\ \A i \in Jobs \ {j} : state'[i] = state[i]
      /\ state' \in [Jobs -> {"idle", "running", "ok", "failed", "stopped"}]
      /\ UNCHANGED <<tree, kind, todo, stamp, from, cfg, opened, text, disturbed, crossed>>
  BY DEF Stop, PipelineInv, TypeOK
<1>2. TypeOK'
  BY <1>1 DEF PipelineInv, TypeOK, tree
<1>3. Started' = Started
  BY <1>1 DEF Started, Running
<1>4. OnTrack'
  <2> SUFFICES ASSUME NEW i \in Jobs, Running(i)'
               PROVE  kind[i] \in Kinds /\ \E n \in 1 .. Len(Script[kind[i]]) : Placed(i, n)'
    BY <1>1 DEF OnTrack
  <2>1. Running(i)
    BY <1>1 DEF Running
  <2>2. kind[i] \in Kinds /\ \E n \in 1 .. Len(Script[kind[i]]) : Placed(i, n)
    BY <2>1 DEF PipelineInv, OnTrack
  <2>3. PICK n \in 1 .. Len(Script[kind[i]]) : Placed(i, n)
    BY <2>2
  <2>4. Placed(i, n)'
    BY <1>1, <2>3 DEF Placed, Before, Faithful, After, Wanted, Written, tree
  <2> QED
    BY <2>2, <2>4
<1>5. Alone'
  BY <1>1 DEF PipelineInv, Alone, Running
<1>6. ByStarted'
  <2> SUFFICES ASSUME NEW i \in Interfaces, loaded'[i] # None
               PROVE  state'[loaded'[i].by] # "idle"
    BY DEF ByStarted
  <2>1. loaded[i].by \in Jobs /\ state[loaded[i].by] # "idle" /\ loaded' = loaded
    BY <1>1 DEF PipelineInv, ByStarted, TypeOK, Attached, tree
  <2> QED
    BY <1>1, <2>1
<1> QED
  BY <1>1, <1>2, <1>3, <1>4, <1>5, <1>6 DEF PipelineInv, Present, tree

(* The invariant, for the theorems below to rest on. *)
LEMMA PipelineInvariance == Spec => []PipelineInv
<1>1. Init => PipelineInv
  <2> SUFFICES ASSUME Init PROVE PipelineInv
    OBVIOUS
  <2>1. TypeOK
    <3>1. <<>> \in Seq(Commands)
      BY EmptySeq
    <3>2. todo \in [Jobs -> Seq(Commands)]
      BY <3>1 DEF Init
    <3>3. object \in Programs \cup {None} /\ source = object /\ Programs \subseteq Texts
      BY DEF Init, Programs, Texts, Part
    <3> QED
      BY <3>2, <3>3 DEF Init, TypeOK
  <2>2. IsFiniteSet(Started)
    <3>1. Started = {}
      BY DEF Init, Started
    <3> QED
      BY <3>1, FS_EmptySet
  <2> QED
    BY <2>1, <2>2 DEF Init, PipelineInv, OnTrack, Alone, ByStarted, Present, Running
<1>2. PipelineInv /\ [Next]_vars => PipelineInv'
  <2> SUFFICES ASSUME PipelineInv, [Next]_vars PROVE PipelineInv'
    OBVIOUS
  <2>1. CASE UNCHANGED vars
    <3> USE <2>1 DEF vars, tree, Running
    <3>1. TypeOK'
      BY DEF PipelineInv, TypeOK
    <3>2. Started' = Started /\ Alone' /\ ByStarted' /\ Present'
      BY DEF PipelineInv, Started, Alone, ByStarted, Present
    <3>3. ASSUME NEW j \in Jobs, NEW n, Placed(j, n) PROVE Placed(j, n)'
      <4>1. /\ kind'[j] = kind[j] /\ todo'[j] = todo[j] /\ cfg'[j] = cfg[j]
            /\ state'[j] = state[j] /\ disturbed'[j] = disturbed[j] /\ text'[j] = text[j]
        OBVIOUS
      <4>2. Faithful(j, n) = Faithful(j, n)'
        BY <4>1 DEF Faithful, Before, After, Wanted, Written
      <4> QED
        BY <3>3, <4>1, <4>2 DEF Placed, Before, After
    <3>4. OnTrack'
      BY <3>3 DEF PipelineInv, OnTrack
    <3> QED
      BY <3>1, <3>2, <3>4 DEF PipelineInv
  <2> QED
    BY <2>1, StartInv, StepInv, StopInv, EditInv DEF Next
<1> QED
  BY <1>1, <1>2, PTL DEF Spec

(* Files, jobs and attached programs always have their types; in           *)
(* particular zerehctl never generates from or loads with a configuration  *)
(* it has not parsed.                                                      *)
THEOREM TypeCorrect == Spec => []TypeOK
  BY PipelineInvariance, PTL DEF PipelineInv

(* The fields of what is attached. *)
LEMMA AttachedFields ==
  ASSUME NEW p, NEW s, NEW b, NEW a, a = [prog |-> p, seeds |-> s, by |-> b]
  PROVE  a.prog = p /\ a.seeds = s /\ a.by = b
OBVIOUS

(* What a step of the system attaches. *)
LEMMA WhatIsLoaded ==
  ASSUME PipelineInv, [Next]_vars, NEW i \in Interfaces
  PROVE  \/ loaded'[i] = loaded[i]
         \/ \E j \in Jobs : /\ Load(j, i) /\ Loadable
                            /\ loaded'[i] = [prog |-> object, seeds |-> cfg[j], by |-> j]
<1>1. loaded \in [Interfaces -> Attached \cup {None}]
  BY DEF PipelineInv, TypeOK
<1>2. ASSUME NEW j \in Jobs, NEW h \in Interfaces, Load(j, h)
      PROVE  \/ loaded'[i] = loaded[i]
             \/ /\ Load(j, i) /\ Loadable
                /\ loaded'[i] = [prog |-> object, seeds |-> cfg[j], by |-> j]
  BY <1>1, <1>2 DEF Load
<1>3. CASE UNCHANGED loaded
  BY <1>3
<1>4. UNCHANGED loaded \/ \E j \in Jobs, h \in Interfaces : Load(j, h)
  BY DEF Next, vars, Start, Stop, EditConfig, Step, Clean, Make, CheckArtifacts, CopyRelease,
         ResolveRelease, ParseConfig, OpenSource, WriteSource, CloseSource, ReadSource,
         WriteObject, tree
<1> QED
  BY <1>2, <1>3, <1>4


(* A job that nothing disturbs loads what it generated. *)
LEMMA LoadsItsOwn ==
  ASSUME PipelineInv, NEW j \in Jobs, NEW i \in Interfaces, Load(j, i),
         ~disturbed[j], kind[j] # "load"
  PROVE  object \in {Nothing, <<cfg[j], cfg[j]>>}
<1> DEFINE command == IF i = "canary" THEN "load_canary" ELSE "load"
<1>1. Doing(j, command) /\ command \in {"load", "load_canary"}
  BY DEF Load
<1> HIDE DEF command
<1>2. kind[j] \in Kinds
  BY <1>1, CommandAt
<1>3. PICK n \in 1 .. Len(Script[kind[j]]) : Placed(j, n) /\ Script[kind[j]][n] = command
  BY <1>1, CommandAt
<1>4. kind[j] \in DOMAIN Script
  BY <1>2, PipelineAssumption
<1>5. Before(j, n, "parse") /\ Before(j, n, "write_object")
  BY <1>1, <1>3, <1>4, ScriptShape DEF InOrder, LoadsCompiled, Before, Users
<1> QED
  BY <1>3, <1>5 DEF Placed, Faithful

(* A program attached by an undisturbed job that generated it has maps     *)
(* seeded from the configuration it was generated from, whatever earlier   *)
(* jobs left behind in the tree.                                           *)
THEOREM UndisturbedJobsAreConsistent == Spec => []SoleJobConsistent
<1>1. Init => SoleJobConsistent
  BY DEF Init, SoleJobConsistent
<1>2. PipelineInv /\ SoleJobConsistent /\ [Next]_vars => SoleJobConsistent'
  <2> SUFFICES ASSUME PipelineInv, SoleJobConsistent, [Next]_vars,
                      NEW i \in Interfaces, loaded'[i] # None,
                      ~disturbed'[loaded'[i].by], kind'[loaded'[i].by] # "load"
               PROVE  loaded'[i].prog = <<loaded'[i].seeds, loaded'[i].seeds>>
    BY DEF SoleJobConsistent
  <2>1. TypeOK
    BY DEF PipelineInv
  <2>2. ASSUME NEW j \in Jobs, state[j] # "idle", ~disturbed'[j]
        PROVE  ~disturbed[j] /\ kind'[j] = kind[j]
    <3>1. CASE UNCHANGED <<kind, disturbed>>
      BY <2>2, <3>1
    <3>2. CASE EditConfig
      BY <2>2, <3>2 DEF EditConfig
    <3>3. ASSUME NEW h \in Jobs, NEW k \in Kinds, NEW throughMake \in BOOLEAN, Start(h, k, throughMake)
          PROVE  ~disturbed[j] /\ kind'[j] = kind[j]
      BY <2>1, <2>2, <3>3 DEF Start, TypeOK
    <3>4. \/ UNCHANGED <<kind, disturbed>> \/ EditConfig
          \/ \E h \in Jobs, k \in Kinds, throughMake \in BOOLEAN : Start(h, k, throughMake)
      BY StepShape DEF Next, vars, Stop
    <3> QED
      BY <3>1, <3>2, <3>3, <3>4
  <2>3. CASE loaded'[i] = loaded[i]
    <3>1. loaded[i].by \in Jobs /\ state[loaded[i].by] # "idle"
      BY <2>1, <2>3 DEF PipelineInv, ByStarted, TypeOK, Attached
    <3> QED
      BY <2>2, <2>3, <3>1 DEF SoleJobConsistent
  <2>4. ASSUME NEW j \in Jobs, Load(j, i), Loadable,
               loaded'[i] = [prog |-> object, seeds |-> cfg[j], by |-> j]
        PROVE  loaded'[i].prog = <<loaded'[i].seeds, loaded'[i].seeds>>
    <3>1. loaded'[i].by = j /\ loaded'[i].prog = object /\ loaded'[i].seeds = cfg[j]
      <4> DEFINE a == loaded'[i]
      <4>1. a = [prog |-> object, seeds |-> cfg[j], by |-> j]
        BY <2>4
      <4> HIDE DEF a
      <4>2. a.by = j /\ a.prog = object /\ a.seeds = cfg[j]
        BY <4>1, AttachedFields
      <4> QED
        BY <4>2 DEF a
    <3>2. state[j] # "idle"
      BY <2>4 DEF Load, Doing, Running
    <3>3. ~disturbed[j] /\ kind[j] # "load"
      BY <2>2, <3>1, <3>2
    <3>4. object = <<cfg[j], cfg[j]>>
      BY <2>4, <3>3, LoadsItsOwn DEF Loadable
    <3> QED
      BY <3>1, <3>4
  <2> QED
    BY <2>3, <2>4, WhatIsLoaded
<1> QED
  BY <1>1, <1>2, PipelineInvariance, PTL DEF Spec
-----------------------------------------------------------------------------
(***************************************************************************)
(* Programs of one configuration.  Until somebody opens the source for     *)
(* writing while another job has it open, there is at most one writer; its *)
(* place in its script says what the file holds, so a reader that looks at *)
(* the rest of the file later than at its head still sees one text.        *)
(***************************************************************************)
Writing(j) == opened[j] /\ (Doing(j, "write_source") \/ Doing(j, "close_source"))
OfOne(t) == t[2] \in {None, t[1]}

OneWriter == \A i, j \in Jobs : Writing(i) /\ Writing(j) => i = j

SourceOfOne ==
  /\ source # None => OfOne(source)
  /\ \A j \in Jobs : Doing(j, "write_source") /\ opened[j] => source = Nothing
  /\ \A j \in Jobs : Doing(j, "close_source") /\ opened[j] => source = <<cfg[j], None>>

TextOfOne ==
  \A j \in Jobs : Doing(j, "write_object") =>
    OfOne(text[j]) /\ (opened[j] => text[j][1] \in {None, source[1]})

ObjectOfOne ==
  /\ object # None => object[1] = object[2]
  /\ \A i \in Interfaces : loaded[i] # None => loaded[i].prog[1] = loaded[i].prog[2]

Unmixed == OneWriter /\ SourceOfOne /\ TextOfOne /\ ObjectOfOne

(* The job that takes a step was at the command in front of this one, and  *)
(* the others are where they were.                                         *)
LEMMA CameFrom ==
  ASSUME PipelineInv, NEW j \in Jobs, Step(j)
  PROVE  /\ Doing(j, "write_source")' => Doing(j, "open_source")
         /\ Doing(j, "close_source")' => Doing(j, "write_source")
         /\ Doing(j, "write_object")' => Doing(j, "read_source")
         /\ \A i \in Jobs \ {j}, command \in Words : Doing(i, command)' <=> Doing(i, command)
<1>1. \A i \in Jobs \ {j} : todo'[i] = todo[i] /\ state'[i] = state[i]
  BY StepProgress
<1>2. \A i \in Jobs \ {j}, command \in Words : Doing(i, command)' <=> Doing(i, command)
  BY <1>1 DEF Doing, Running
<1>3. Running(j) /\ kind[j] \in Kinds
  BY StepShape, StepProgress
<1>4. ASSUME Running(j)'
      PROVE  \E a, b \in Words :
               /\ todo[j] # <<>> /\ Head(todo[j]) = a /\ Head(todo'[j]) = b
               /\ b = "write_source" => a = "open_source"
               /\ b = "close_source" => a = "write_source"
               /\ b = "write_object" => a = "read_source"
  <2> DEFINE s == Script[kind[j]]
  <2>1. PICK n \in 1 .. Len(s) : /\ Placed(j, n)
                                 /\ n + 1 \in 1 .. Len(s)
                                 /\ todo'[j] = SubSeq(s, n + 1, Len(s))
    BY <1>4, StepProgress
  <2>2. s \in Seq(Words) /\ InOrder(s)
    BY <1>3, ScriptShape, PipelineAssumption
  <2>3. todo[j] = SubSeq(s, n, Len(s))
    BY <2>1 DEF Placed
  <2> HIDE DEF s
  <2>4. todo[j] # <<>> /\ Head(todo[j]) = s[n]
    BY <2>2, <2>3, RestOfScript
  <2>5. Head(todo'[j]) = s[n + 1]
    BY <2>1, <2>2, RestOfScript
  <2>6. s[n] \in Words /\ s[n + 1] \in Words
    BY <2>1, <2>2
  <2>7. (n + 1) - 1 = n
    BY <2>2
  <2>8. /\ s[n + 1] = "write_source" => s[n] = "open_source"
        /\ s[n + 1] = "close_source" => s[n] = "write_source"
        /\ s[n + 1] = "write_object" => s[n] = "read_source"
    BY <2>1, <2>2, <2>7 DEF InOrder
  <2> QED
    BY <2>4, <2>5, <2>6, <2>8, Zenon
<1>5. /\ Doing(j, "write_source")' => Doing(j, "open_source")
      /\ Doing(j, "close_source")' => Doing(j, "write_source")
      /\ Doing(j, "write_object")' => Doing(j, "read_source")
  BY <1>3, <1>4 DEF Doing
<1> QED
  BY <1>2, <1>5

(* Only the actions on the source matter to it and to who has it open. *)
LEMMA SourceSteps ==
  ASSUME NEW j \in Jobs, Step(j)
  PROVE  /\ \/ UNCHANGED <<source, opened>>
            \/ Clean(j) \/ OpenSource(j) \/ WriteSource(j) \/ CloseSource(j)
            \/ ReadSource(j) \/ WriteObject(j)
         /\ Doing(j, "open_source") => OpenSource(j)
         /\ Doing(j, "write_source") => WriteSource(j)
         /\ Doing(j, "read_source") => ReadSource(j)
BY DEF Step, Doing, Clean, Make, CheckArtifacts, CopyRelease, ResolveRelease, ParseConfig,
       OpenSource, WriteSource, CloseSource, ReadSource, WriteObject, Load, tree

(* Nobody who has opened the source is crossed by a later writer. *)
LEMMA StepOneWriter ==
  ASSUME PipelineInv, Unmixed, NEW j \in Jobs, Step(j), ~crossed'
  PROVE  OneWriter'
<1>1. TypeOK /\ OneWriter
  BY DEF PipelineInv, Unmixed
<1>2. ASSUME NEW i \in Jobs \ {j}, Writing(i)' PROVE Writing(i)
  <2>1. Doing(i, "write_source") \/ Doing(i, "close_source")
    BY <1>2, CameFrom DEF Writing, Words
  <2>2. opened'[i] => opened[i]
    BY <1>1, SourceSteps DEF TypeOK, Clean, OpenSource, WriteSource, CloseSource, ReadSource, WriteObject
  <2> QED
    BY <1>2, <2>1, <2>2 DEF Writing
<1>3. ASSUME Writing(j)', NEW i \in Jobs \ {j}, Writing(i)' PROVE FALSE
  <2>1. CASE Doing(j, "open_source")
    <3>1. Running(j)' /\ OpenSource(j)
      BY <1>3, <2>1, SourceSteps DEF Writing, Doing
    <3>2. outDir
      BY <1>1, <3>1 DEF OpenSource, Refuse, Running, TypeOK
    <3>3. ~OthersHaveItOpen(j)
      BY <3>1, <3>2 DEF OpenSource
    <3> QED
      BY <1>2, <1>3, <3>1, <3>3 DEF OthersHaveItOpen, Writing, Doing
  <2>2. CASE Doing(j, "write_source")
    <3>1. opened[j]
      BY <1>3, <2>2, SourceSteps DEF WriteSource, Writing
    <3> QED
      BY <1>1, <1>2, <1>3, <2>2, <3>1 DEF OneWriter, Writing
  <2> QED
    BY <1>3, <2>1, <2>2, CameFrom DEF Writing
<1> QED
  BY <1>2, <1>3, <1>1 DEF OneWriter

(* The writer finds what it left, and leaves a text of its own. *)
LEMMA StepSource ==
  ASSUME PipelineInv, Unmixed, NEW j \in Jobs, Step(j), ~crossed'
  PROVE  SourceOfOne'
<1>1. TypeOK /\ OneWriter /\ SourceOfOne /\ Present
  BY DEF PipelineInv, Unmixed
<1>2. ASSUME NEW i \in Jobs \ {j}
      PROVE  /\ Doing(i, "write_source")' <=> Doing(i, "write_source")
             /\ Doing(i, "close_source")' <=> Doing(i, "close_source")
             /\ cfg'[i] = cfg[i]
  BY CameFrom, StepParsed DEF Words
<1>3. CASE Doing(j, "open_source")
  <2>1. OpenSource(j)
    BY <1>3, SourceSteps
  <2>2. CASE outDir
    <3>1. source' = Nothing /\ ~OthersHaveItOpen(j)
          /\ \A i \in Jobs \ {j} : opened'[i] = opened[i]
      BY <1>1, <2>1, <2>2 DEF OpenSource, TypeOK
    <3>2. \A i \in Jobs \ {j} : Doing(i, "close_source")' => ~opened'[i]
      BY <1>2, <3>1 DEF OthersHaveItOpen, Doing
    <3>3. ~Doing(j, "close_source")'
      BY <1>3, CameFrom DEF Doing
    <3>4. OfOne(source')
      BY <3>1 DEF OfOne, Nothing
    <3> QED
      BY <3>1, <3>2, <3>3, <3>4 DEF SourceOfOne, OfOne
  <2>3. CASE ~outDir
    <3>1. UNCHANGED <<source, opened>> /\ ~Running(j)'
      BY <1>1, <2>1, <2>3 DEF OpenSource, Refuse, Running, TypeOK
    <3> QED
      BY <1>1, <1>2, <3>1 DEF SourceOfOne, OfOne, Doing
  <2> QED
    BY <2>2, <2>3
<1>4. CASE Doing(j, "write_source")
  <2>1. WriteSource(j) /\ opened' = opened /\ cfg' = cfg
    BY <1>4, SourceSteps DEF WriteSource
  <2>2. ~Doing(j, "write_source")'
    BY <1>4, CameFrom DEF Doing
  <2>3. CASE opened[j]
    <3>1. source = Nothing
      BY <1>1, <1>4, <2>3 DEF SourceOfOne
    <3>2. source' = <<cfg[j], None>>
      BY <2>1, <2>3, <3>1 DEF WriteSource, Nothing
    <3>3. \A i \in Jobs \ {j} : ~Writing(i)
      BY <1>1, <1>4, <2>3 DEF OneWriter, Writing
    <3>4. \A i \in Jobs \ {j} : opened'[i] => ~Doing(i, "write_source")' /\ ~Doing(i, "close_source")'
      BY <1>2, <2>1, <3>3 DEF Writing
    <3>5. OfOne(source')
      BY <3>2 DEF OfOne
    <3> QED
      BY <2>1, <2>2, <3>2, <3>4, <3>5 DEF SourceOfOne, OfOne
  <2>4. CASE ~opened[j]
    <3>1. source' = source
      BY <2>1, <2>4 DEF WriteSource
    <3> QED
      BY <1>1, <1>2, <2>1, <2>2, <2>4, <3>1 DEF SourceOfOne, OfOne
  <2> QED
    BY <2>3, <2>4
<1>5. CASE ~Doing(j, "open_source") /\ ~Doing(j, "write_source")
  <2>1. ~Doing(j, "write_source")' /\ ~Doing(j, "close_source")'
    BY <1>5, CameFrom
  <2>2. CASE Clean(j)
    BY <1>1, <1>2, <2>1, <2>2 DEF Clean, SourceOfOne, OfOne
  <2>3. CASE CloseSource(j)
    <3>1. CASE opened[j]
      <4>1. source = <<cfg[j], None>>
        BY <1>1, <2>3, <3>1 DEF SourceOfOne, CloseSource
      <4>2. source' \in {source, <<cfg[j], cfg[j]>>}
        BY <2>3, <3>1, <4>1 DEF CloseSource
      <4>3. OfOne(source')
        BY <4>1, <4>2 DEF OfOne
      <4>4. \A i \in Jobs \ {j} : ~Writing(i) /\ opened'[i] = opened[i]
        BY <1>1, <2>3, <3>1 DEF OneWriter, Writing, CloseSource, TypeOK
      <4> QED
        BY <1>2, <2>1, <4>3, <4>4 DEF SourceOfOne, OfOne, Writing
    <3>2. CASE ~opened[j]
      <4>1. source' = source /\ \A i \in Jobs \ {j} : opened'[i] = opened[i]
        BY <1>1, <2>3, <3>2 DEF CloseSource, TypeOK
      <4> QED
        BY <1>1, <1>2, <2>1, <4>1 DEF SourceOfOne, OfOne
    <3> QED
      BY <3>1, <3>2
  <2>4. CASE source' = source /\ \A i \in Jobs \ {j} : opened'[i] = opened[i]
    BY <1>1, <1>2, <2>1, <2>4 DEF SourceOfOne, OfOne
  <2>5. ReadSource(j) \/ WriteObject(j) => source' = source /\ \A i \in Jobs \ {j} : opened'[i] = opened[i]
    BY <1>1 DEF ReadSource, WriteObject, TypeOK, tree
  <2> QED
    BY <1>5, <2>2, <2>3, <2>4, <2>5, SourceSteps DEF OpenSource, WriteSource
<1> QED
  BY <1>3, <1>4, <1>5

(* clang's view of the file stays that of one text. *)
LEMMA StepText ==
  ASSUME PipelineInv, Unmixed, NEW j \in Jobs, Step(j), ~crossed'
  PROVE  TextOfOne'
<1>1. TypeOK /\ OneWriter /\ SourceOfOne /\ TextOfOne /\ Present
  BY DEF PipelineInv, Unmixed
<1>2. ASSUME NEW i \in Jobs \ {j}, Doing(i, "write_object")'
      PROVE  Doing(i, "write_object") /\ text'[i] = text[i]
  BY <1>2, CameFrom, StepRead DEF Words
<1>3. ASSUME Doing(j, "write_object")'
      PROVE  OfOne(text'[j]) /\ (opened'[j] => text'[j][1] \in {None, source'[1]})
  <2>1. ReadSource(j) /\ Running(j)'
    BY <1>3, CameFrom, SourceSteps DEF Doing
  <2>2. source # None /\ source' = source /\ text'[j] = source
    BY <1>1, <2>1 DEF ReadSource, Refuse, Running, TypeOK, tree
  <2> QED
    BY <1>1, <2>2 DEF SourceOfOne, OfOne
<1>4. ASSUME NEW i \in Jobs \ {j}, Doing(i, "write_object")', opened'[i]
      PROVE  text[i][1] \in {None, source'[1]}
  <2>1. Doing(i, "write_object")
    BY <1>2, <1>4
  <2>2. CASE opened[i]
    <3>1. text[i][1] \in {None, source[1]}
      BY <1>1, <2>1, <2>2 DEF TextOfOne
    <3>2. CASE OpenSource(j)
      <4>1. CASE outDir
        <5>1. ~OthersHaveItOpen(j)
          BY <3>2, <4>1 DEF OpenSource
        <5> QED
          BY <2>1, <2>2, <5>1 DEF OthersHaveItOpen, Doing
      <4>2. CASE ~outDir
        BY <3>1, <3>2, <4>2 DEF OpenSource
      <4> QED
        BY <4>1, <4>2
    <3>3. CASE WriteSource(j)
      <4>1. CASE opened[j]
        <5>1. source = Nothing
          BY <1>1, <3>3, <4>1 DEF WriteSource, SourceOfOne
        <5> QED
          BY <3>1, <5>1 DEF Nothing
      <4>2. CASE ~opened[j]
        BY <3>1, <3>3, <4>2 DEF WriteSource
      <4> QED
        BY <4>1, <4>2
    <3>4. CASE CloseSource(j)
      BY <3>1, <3>4 DEF CloseSource
    <3>5. CASE Clean(j)
      BY <1>4, <3>5 DEF Clean
    <3>6. ReadSource(j) \/ WriteObject(j) => source' = source
      BY DEF ReadSource, WriteObject, tree
    <3> QED
      BY <3>1, <3>2, <3>3, <3>4, <3>5, <3>6, SourceSteps
  <2>3. opened[i]
    BY <1>1, <1>4, SourceSteps
       DEF TypeOK, Clean, OpenSource, WriteSource, CloseSource, ReadSource, WriteObject
  <2> QED
    BY <2>2, <2>3
<1> QED
  BY <1>1, <1>2, <1>3, <1>4 DEF TextOfOne, OfOne

(* What clang may see is one text, so its object holds one program. *)
LEMMA SeenOfOne ==
  ASSUME PipelineInv, Unmixed, NEW j \in Jobs, Doing(j, "write_object"), NEW t \in Seen(j),
         NEW o \in CompiledTo(t)
  PROVE  o[1] = o[2]
<1>1. t \in Texts /\ text[j] \in Texts
  BY SeenType
<1>2. OfOne(text[j]) /\ (opened[j] => text[j][1] \in {None, source[1]})
  BY DEF Unmixed, TextOfOne
<1>3. CASE t = text[j]
  BY <1>1, <1>2, <1>3, CompiledType DEF OfOne
<1>4. CASE opened[j] /\ t = <<text[j][1], source[2]>>
  <2>1. t[1] = text[j][1] /\ t[2] = source[2]
    BY <1>4
  <2>2. CASE t[1] = None
    <3>1. o = Nothing
      BY <1>1, <2>2, PipelineAssumption DEF CompiledTo, Programs, Nothing
    <3> QED
      BY <3>1 DEF Nothing
  <2>3. CASE t[1] = source[1]
    <3>1. source[2] \in {None, source[1]}
      BY <1>4 DEF PipelineInv, Present, Unmixed, SourceOfOne, OfOne
    <3> QED
      BY <1>1, <2>1, <2>3, <3>1, CompiledType
  <2> QED
    BY <1>2, <1>4, <2>1, <2>2, <2>3
<1> QED
  BY <1>3, <1>4 DEF Seen

(* Objects and attached programs. *)
LEMMA StepObject ==
  ASSUME PipelineInv, Unmixed, NEW j \in Jobs, Step(j)
  PROVE  ObjectOfOne'
<1>1. ObjectOfOne
  BY DEF Unmixed
<1>2. object' # None => object'[1] = object'[2]
  <2>1. CASE WriteObject(j)
    <3>1. Doing(j, "write_object")
          /\ (object' \in {object, None} \/ \E t \in Seen(j) : object' \in CompiledTo(t))
      BY <2>1 DEF WriteObject
    <3> QED
      BY <1>1, <3>1, SeenOfOne DEF ObjectOfOne
  <2>2. CASE object' \in {object, None}
    BY <1>1, <2>2 DEF ObjectOfOne
  <2> QED
    BY <2>1, <2>2 DEF Step, Clean, Make, CheckArtifacts, CopyRelease, ResolveRelease, ParseConfig,
                      OpenSource, WriteSource, CloseSource, ReadSource, Load, tree
<1>3. ASSUME NEW i \in Interfaces, loaded'[i] # None
      PROVE  loaded'[i].prog[1] = loaded'[i].prog[2]
  <2>1. \/ loaded'[i] = loaded[i]
        \/ Loadable /\ \E h \in Jobs : loaded'[i] = [prog |-> object, seeds |-> cfg[h], by |-> h]
    BY WhatIsLoaded DEF Next
  <2>2. CASE loaded'[i] = loaded[i]
    BY <1>1, <1>3, <2>2 DEF ObjectOfOne
  <2>3. ASSUME Loadable, NEW h \in Jobs, loaded'[i] = [prog |-> object, seeds |-> cfg[h], by |-> h]
        PROVE  loaded'[i].prog[1] = loaded'[i].prog[2]
    <3>1. loaded'[i].prog = object
      <4> DEFINE a == loaded'[i]
      <4>1. a = [prog |-> object, seeds |-> cfg[h], by |-> h]
        BY <2>3
      <4> HIDE DEF a
      <4>2. a.prog = object
        BY <4>1, AttachedFields
      <4> QED
        BY <4>2 DEF a
    <3>2. object # None
      BY <2>3 DEF Loadable
    <3> QED
      BY <1>1, <3>1, <3>2, Zenon DEF ObjectOfOne
  <2> QED
    BY <2>1, <2>2, <2>3
<1> QED
  BY <1>2, <1>3 DEF ObjectOfOne

(* No script begins in the middle of generate. *)
LEMMA FirstCommand ==
  ASSUME NEW s, InOrder(s), 1 \in 1 .. Len(s)
  PROVE  s[1] \notin {"write_source", "close_source", "write_object"}
BY DEF InOrder

(* A job that starts has none of the files open that matter. *)
LEMMA StartUnmixed ==
  ASSUME PipelineInv, Unmixed, NEW j \in Jobs, NEW k \in Kinds, NEW throughMake \in BOOLEAN,
         Start(j, k, throughMake)
  PROVE  Unmixed'
<1>1. /\ UNCHANGED <<source, object, loaded, cfg, opened, text>>
      /\ todo'[j] = Script[k] /\ TypeOK
      /\ \A i \in Jobs \ {j} : todo'[i] = todo[i] /\ state'[i] = state[i]
  BY DEF Start, PipelineInv, TypeOK
<1>2. Script[k] \in Seq(Words) /\ Len(Script[k]) > 0 /\ InOrder(Script[k])
  BY ScriptShape, PipelineAssumption
<1>3. Head(Script[k]) = Script[k][1] /\ 1 \in 1 .. Len(Script[k])
  BY <1>2
<1>4. Head(Script[k]) \notin {"write_source", "close_source", "write_object"}
  BY <1>2, <1>3, FirstCommand, Zenon
<1>5. ~Doing(j, "write_source")' /\ ~Doing(j, "close_source")' /\ ~Doing(j, "write_object")'
  BY <1>1, <1>4 DEF Doing
<1>6. \A i \in Jobs \ {j}, command \in Words : Doing(i, command)' <=> Doing(i, command)
  BY <1>1 DEF Doing, Running
<1>7. OneWriter'
  BY <1>1, <1>5, <1>6 DEF Unmixed, OneWriter, Writing, Words
<1>8. SourceOfOne'
  BY <1>1, <1>5, <1>6 DEF Unmixed, SourceOfOne, OfOne, Words
<1>9. TextOfOne'
  BY <1>1, <1>5, <1>6 DEF Unmixed, TextOfOne, OfOne, Words
<1>10. ObjectOfOne'
  BY <1>1 DEF Unmixed, ObjectOfOne
<1> QED
  BY <1>7, <1>8, <1>9, <1>10 DEF Unmixed

(* A job that ends, or an edit, changes none of it. *)
LEMMA QuietUnmixed ==
  ASSUME Unmixed, UNCHANGED <<source, object, loaded, cfg, opened, text, todo>>,
         \A j \in Jobs : Running(j)' => Running(j)
  PROVE  Unmixed'
<1>1. \A j \in Jobs, command \in Words : Doing(j, command)' => Doing(j, command)
  BY DEF Doing
<1>2. OneWriter'
  BY <1>1 DEF Unmixed, OneWriter, Writing, Words
<1>3. SourceOfOne'
  BY <1>1 DEF Unmixed, SourceOfOne, OfOne, Words
<1>4. TextOfOne'
  BY <1>1 DEF Unmixed, TextOfOne, OfOne, Words
<1>5. ObjectOfOne'
  BY DEF Unmixed, ObjectOfOne
<1> QED
  BY <1>2, <1>3, <1>4, <1>5 DEF Unmixed

(* As long as nobody has opened the source for writing while another job   *)
(* was writing or compiling it, every attached program is that of one      *)
(* configuration: a writer that stops half-way, a lost fclose and a reader *)
(* that comes too early do no harm.                                        *)
THEOREM NothingMixedIsLoaded == Spec => []NoMixedProgram
<1> DEFINE Inv == ~crossed => Unmixed
<1>1. Init => Inv
  <2> SUFFICES ASSUME Init PROVE Unmixed
    OBVIOUS
  <2>1. \A j \in Jobs, command \in Words : ~Doing(j, command)
    BY DEF Init, Doing, Running
  <2>2. OneWriter /\ TextOfOne
    BY <2>1 DEF OneWriter, TextOfOne, Writing, Words
  <2>3. source # None => \E c \in Configs : source = <<c, c>>
    BY DEF Init
  <2>4. SourceOfOne
    BY <2>1, <2>3 DEF SourceOfOne, OfOne, Words
  <2>5. ObjectOfOne
    <3>1. source = object /\ \A i \in Interfaces : loaded[i] = None
      BY DEF Init
    <3>2. ASSUME object # None PROVE object[1] = object[2]
      <4>1. PICK c \in Configs : object = <<c, c>>
        BY <2>3, <3>1, <3>2, Zenon
      <4> QED
        BY <4>1
    <3> QED
      BY <3>1, <3>2, Zenon DEF ObjectOfOne
  <2> QED
    BY <2>2, <2>4, <2>5 DEF Unmixed
<1>2. PipelineInv /\ Inv /\ [Next]_vars => Inv'
  <2> SUFFICES ASSUME PipelineInv, Inv, [Next]_vars, ~crossed'
               PROVE  Unmixed'
    OBVIOUS
  <2>1. ASSUME NEW j \in Jobs, Step(j) PROVE crossed => crossed'
    BY <2>1 DEF Step, Clean, Make, CheckArtifacts, CopyRelease, ResolveRelease, ParseConfig,
                OpenSource, WriteSource, CloseSource, ReadSource, WriteObject, Load, tree
  <2>2. crossed => crossed'
    BY <2>1 DEF Next, Start, Stop, EditConfig, vars
  <2>3. Unmixed
    BY <2>2
  <2>4. ASSUME NEW j \in Jobs, Step(j) PROVE Unmixed'
    BY <2>3, <2>4, StepOneWriter, StepSource, StepText, StepObject DEF Unmixed
  <2>5. ASSUME NEW j \in Jobs, Stop(j) PROVE Unmixed'
    <3>1. \A i \in Jobs : Running(i)' => Running(i)
      BY <2>5 DEF Stop, PipelineInv, TypeOK, Running
    <3> QED
      BY <2>3, <2>5, <3>1, QuietUnmixed DEF Stop, tree
  <2>6. CASE EditConfig \/ UNCHANGED vars
    <3>1. UNCHANGED <<source, object, loaded, cfg, opened, text, todo, state>>
      BY <2>6 DEF EditConfig, vars, tree
    <3> QED
      BY <2>3, <3>1, QuietUnmixed DEF Running
  <2> QED
    BY <2>3, <2>4, <2>5, <2>6, StartUnmixed DEF Next
<1>3. Inv => NoMixedProgram
  BY DEF NoMixedProgram, Unmixed, ObjectOfOne
<1> HIDE DEF Inv
<1> QED
  BY <1>1, <1>2, <1>3, PipelineInvariance, PTL DEF Spec
=============================================================================
