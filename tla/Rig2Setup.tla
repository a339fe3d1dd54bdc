------------------------------ MODULE Rig2Setup ------------------------------
(***************************************************************************)
(* infra/rig2/setup.sh, run again and again: with set -e every command may *)
(* end the run, and so may an interruption between two of them or within   *)
(* one.  What it leaves on the disk is what the next run starts from.      *)
(***************************************************************************)
EXTENDS Integers

CONSTANTS
  Models,       \* values of MODEL
  Keys,         \* what openssl rand may give
  Placeholder,  \* a key that begins with CHANGE_ME
  None,         \* no file, no key, no service
  Empty,        \* an environment file that is still to be written
  MaxRuns       \* bound on the runs

VARIABLES
  src,     \* src, the checkout: "none", "clean", or "stuck" where git was cut short
  libs,    \* the libraries in src/build are there
  bin,     \* llama-server is installed
  gguf,    \* the model the link points to
  env,     \* worker.env
  worker,  \* the environment the service was started with
  pc,      \* the next part of the script; "idle", "done" or "failed"
  model, rebuild,  \* MODEL and REBUILD of the run
  key,     \* KEY
  fault,   \* history: something outside the script ended the last run
  cut,     \* history: a run ended between the two halves of cat >
  told,    \* history: the key of the last run that ended well
  runs

vars == <<src, libs, bin, gguf, env, worker, pc, model, rebuild, key, fault, cut, told, runs>>
disk == <<src, libs, bin, gguf, env, worker>>
given == <<model, rebuild, fault, cut, told, runs>>

KeyOf(e) == IF e \in {None, Empty} THEN None ELSE e.key

Init ==
  /\ src = "none" /\ libs = FALSE /\ bin = FALSE /\ gguf = None /\ worker = None
  /\ env \in {None} \cup [model : Models, key : {Placeholder}]
  /\ pc = "idle" /\ model \in Models /\ rebuild = FALSE /\ key = None
  /\ fault = FALSE /\ cut = FALSE /\ told = None /\ runs = 0

Stopped == pc \in {"idle", "done", "failed"}

Begin(m, r) ==
  /\ Stopped /\ runs < MaxRuns /\ runs' = runs + 1
  /\ model' = m /\ rebuild' = r /\ key' = None /\ fault' = FALSE
  /\ pc' = "build"
  /\ UNCHANGED <<disk, cut, told>>

(* llama.cpp is built unless it is installed, or if REBUILD is 1. *)
Building == ~bin \/ rebuild

Goto(from, to) == pc = from /\ pc' = to

(* Fault: what is installed is never built again. *)
SkipBuildAlways ==
  /\ bin
  /\ Goto("build", "devices")
  /\ UNCHANGED <<disk, key, given>>

SkipBuild ==
  /\ ~Building
  /\ Goto("build", "devices")
  /\ UNCHANGED <<disk, key, given>>

(* git clone; or git fetch in what an earlier run left there, which may be *)
(* no repository, or one that the fetch completes.                         *)
Fetch ==
  /\ Building /\ pc = "build"
  /\ \/ pc' = "checkout" /\ src' \in IF src = "stuck" THEN {"stuck", "clean"} ELSE {"clean"}
     \/ src = "stuck" /\ pc' = "failed" /\ UNCHANGED src
  /\ UNCHANGED <<libs, bin, gguf, env, worker, key, given>>

(* git checkout refuses while the lock or the half-written tree of an      *)
(* earlier one is there.                                                   *)
Checkout ==
  /\ pc = "checkout"
  /\ pc' = IF src = "clean" THEN "clean" ELSE "failed"
  /\ UNCHANGED <<disk, key, given>>

(* rm -rf build, before cmake makes it anew *)
Clean ==
  /\ Goto("clean", "compile")
  /\ libs' = FALSE
  /\ UNCHANGED <<src, bin, gguf, env, worker, key, given>>

Compile ==
  /\ Goto("compile", "install")
  /\ libs' = TRUE
  /\ UNCHANGED <<src, bin, gguf, env, worker, key, given>>

InstallBin ==
  /\ Goto("install", "devices")
  /\ bin' = TRUE
  /\ UNCHANGED <<src, libs, gguf, env, worker, key, given>>

(* The installed binary looks for its libraries in src/build. *)
ListDevices ==
  /\ pc = "devices"
  /\ pc' = IF libs THEN "model" ELSE "failed"
  /\ UNCHANGED <<disk, key, given>>

(* What is linked stays; otherwise MODEL is pulled and linked. *)
LinkModel ==
  /\ Goto("model", "env")
  /\ gguf' = IF gguf = None THEN model ELSE gguf
  /\ UNCHANGED <<src, libs, bin, env, worker, key, given>>

(* Fault: every run makes a key of its own. *)
ReadKeyNew ==
  /\ Goto("env", "truncate")
  /\ key' \in Keys
  /\ UNCHANGED <<disk, given>>

ReadKey ==
  /\ Goto("env", "truncate")
  /\ key' \in IF KeyOf(env) \in {None, Placeholder} THEN Keys ELSE {KeyOf(env)}
  /\ UNCHANGED <<disk, given>>

(* cat > opens the file, and only then writes it. *)
Truncate ==
  /\ Goto("truncate", "write")
  /\ env' = Empty
  /\ UNCHANGED <<src, libs, bin, gguf, worker, key, given>>

WriteEnv ==
  /\ Goto("write", "service")
  /\ env' = [model |-> model, key |-> key]
  /\ UNCHANGED <<src, libs, bin, gguf, worker, key, given>>

(* systemctl restart: the service reads the file. *)
Restart ==
  /\ Goto("service", "health")
  /\ worker' = env
  /\ UNCHANGED <<src, libs, bin, gguf, env, key, given>>

(* The worker answers, with the key of the run. *)
Health ==
  /\ Goto("health", "done")
  /\ told' = key
  /\ UNCHANGED <<disk, key, model, rebuild, fault, cut, runs>>

(* A command of the run fails, or it is interrupted; in git, that may      *)
(* leave a tree that it does not work with again.                          *)
Fail ==
  /\ ~Stopped
  /\ pc' = "failed" /\ fault' = TRUE
  /\ cut' = (cut \/ pc = "write")
  /\ \/ UNCHANGED src
     \/ (pc = "checkout" \/ (pc = "build" /\ Building)) /\ src' = "stuck"
  /\ UNCHANGED <<libs, bin, gguf, env, worker, key, model, rebuild, told, runs>>

Next ==
  \/ \E m \in Models, r \in BOOLEAN : Begin(m, r)
  \/ SkipBuild \/ Fetch \/ Checkout \/ Clean \/ Compile \/ InstallBin \/ ListDevices
  \/ LinkModel \/ ReadKey \/ Truncate \/ WriteEnv \/ Restart \/ Health
  \/ Fail

Spec == Init /\ [][Next]_vars

-----------------------------------------------------------------------------
(* A run that ends leaves a worker that runs with the file and the key as  *)
(* they are, over a binary that finds its libraries, and a key of its own  *)
(* (all of the script).                                                    *)
DoneIsConsistent ==
  pc = "done" =>
    /\ worker = env /\ env = [model |-> model, key |-> key]
    /\ libs /\ bin /\ gguf # None /\ key \in Keys

(* Runs that end well have all the same key, whatever runs failed between  *)
(* them, unless one was interrupted while it wrote the file (ReadKey).     *)
KeyKeptUnlessCut == [][told # None /\ told' # told => cut]_vars

(* With REBUILD=1 a run ends well unless something outside ends it, in     *)
(* whatever state the runs before left the disk, but for one: a checkout   *)
(* that git was interrupted in stays in the way.                           *)
RebuildRecovers == pc = "failed" /\ rebuild => fault \/ src = "stuck"

(* Both together: what a run may leave behind (all of the script). *)
SetupRight == DoneIsConsistent /\ RebuildRecovers

(* "Safe to re-run": without REBUILD too. *)
RerunRecovers == pc = "failed" => fault

(* "An existing worker.env keeps its WORKER_API_KEY". *)
KeyKept == [][told # None => told' = told]_vars

(* "Done: $MODEL": what is served under the name is that model. *)
DoneServesModel == pc = "done" => gguf = env.model
=============================================================================
