------------------------------ MODULE Updater ------------------------------
(***************************************************************************)
(* The self-update of the panel: Manager.Check, Apply and StartLoop of     *)
(* internal/update/update.go, the handlers of internal/web/api_update.go   *)
(* and restartProcess.                                                     *)
(*                                                                         *)
(* A file is the version that it reports when it is run, Broken when it    *)
(* does not run or is another program, Absent when there is none.  Each    *)
(* call of the file system is a step, and the panel may die between any    *)
(* two.  A crash is the death of the process: the file system keeps what   *)
(* was written.  What GitHub answers is any version, or a failure.         *)
(*                                                                         *)
(* The executable is at place 0, its .previous at 1, the .previous of that *)
(* at 2, and so on.  On Linux os.Executable follows the file that runs     *)
(* when it is renamed: after an update whose restart failed the next one   *)
(* works on place 1.                                                       *)
(***************************************************************************)
EXTENDS Integers, FiniteSets

CONSTANTS Appliers,   \* goroutines that may call Apply
          Versions,   \* releases; 0 and less are no versions
          Servers,    \* the Minecraft servers of this panel
          Depth       \* how often .previous fits into a file name

ASSUME UpdaterAssumption == Versions \subseteq Nat \ {0} /\ Depth \in Nat \ {0}

Absent == 0
Broken == -1
Binaries == Versions \cup {Absent, Broken}
Places == 0..Depth

VARIABLES
    up,         \* whether the panel runs
    run,        \* the version of the code that runs, or ran last
    files,      \* the file at each place
    self,       \* /proc/self/exe: the place of the file that runs
    latest,     \* the release that Check cached
    applying,
    pc, rel,    \* per call of Apply: its step, its release
    exe,        \* and its executable
    temp,       \* the .update-* file that each call made
    todo,       \* the servers its StopAll has still to look at
    live,       \* servers that run as children of this panel
    orphans     \* servers left running by an earlier process image

callVars   == <<pc, rel, exe, todo>>
serverVars == <<live, orphans>>
vars == <<up, run, files, self, latest, applying, callVars, temp, serverVars>>

Steps == {"idle", "asked", "examine", "fetch", "verify", "remove", "backup",
          "install", "rollback", "stop", "exec", "return"}

Inside  == Steps \ {"idle", "asked"}   \* past the test of m.applying
Holding == {"verify", "remove", "backup", "install", "rollback"}  \* with a temporary file

TypeOK ==
    /\ up \in {"yes", "no"} /\ applying \in {"yes", "no"}
    /\ run \in Versions
    /\ files \in [Places -> Binaries] /\ self \in Places
    /\ latest \in Versions \cup {Absent}
    /\ pc \in [Appliers -> Steps]
    /\ rel \in [Appliers -> Versions \cup {Absent}]
    /\ exe \in [Appliers -> Places]
    /\ temp \in [Appliers -> Binaries]
    /\ todo \in [Appliers -> SUBSET Servers]
    /\ live \subseteq Servers /\ orphans \subseteq Servers

(* version.Newer *)
Newer(v, w) == v > w

UpdateAvailable == latest # Absent /\ Newer(latest, run)

Fresh ==
    /\ latest' = Absent
    /\ applying' = "no"
    /\ pc' = [t \in Appliers |-> "idle"]
    /\ rel' = [t \in Appliers |-> Absent]
    /\ exe' = [t \in Appliers |-> 0]
    /\ todo' = [t \in Appliers |-> {}]

Init ==
    /\ up = "yes" /\ applying = "no"
    /\ run \in Versions /\ self = 0
    /\ files = [i \in Places |-> IF i = 0 THEN run ELSE Absent]
    /\ latest = Absent
    /\ pc = [t \in Appliers |-> "idle"]
    /\ rel = [t \in Appliers |-> Absent] /\ exe = [t \in Appliers |-> 0]
    /\ temp = [t \in Appliers |-> Absent]
    /\ todo = [t \in Appliers |-> {}]
    /\ live \in SUBSET Servers /\ orphans = {}
-----------------------------------------------------------------------------
At(t, step) == up = "yes" /\ pc[t] = step
Goto(t, step) == pc' = [pc EXCEPT ![t] = step]

(* Check: the answers of two calls may be stored in either order, and a    *)
(* release may be withdrawn, so that latest may also go back.              *)
Check(v) ==
    /\ up = "yes"
    /\ latest' = v
    /\ UNCHANGED <<up, run, files, self, applying, callVars, temp, serverVars>>

(* "Update now", or the loop with automatic updates switched on *)
Ask(t) ==
    /\ At(t, "idle") /\ UpdateAvailable
    /\ Goto(t, "asked")
    /\ UNCHANGED <<up, run, files, self, latest, applying, rel, exe, temp, todo, serverVars>>

Refuse(t) ==
    /\ At(t, "asked") /\ applying = "yes"
    /\ Goto(t, "idle")
    /\ UNCHANGED <<up, run, files, self, latest, applying, rel, exe, temp, todo, serverVars>>

Begin(t) ==
    /\ At(t, "asked") /\ applying = "no"
    /\ applying' = "yes"
    /\ rel' = [rel EXCEPT ![t] = latest]
    /\ Goto(t, "examine")
    /\ UNCHANGED <<up, run, files, self, latest, exe, temp, todo, serverVars>>

(* Apply compares again: the release may have changed since Status. *)
Worthwhile_AsAsked(t) == rel[t] # Absent
Worthwhile(t) == rel[t] # Absent /\ Newer(rel[t], run)

(* os.Executable; EvalSymlinks fails when there is no such file. *)
Located == files[self] # Absent

Examine(t) ==
    /\ At(t, "examine")
    /\ \/ /\ Worthwhile(t) /\ Located
          /\ exe' = [exe EXCEPT ![t] = self]
          /\ Goto(t, "fetch")
       \/ /\ ~(Worthwhile(t) /\ Located)
          /\ Goto(t, "return")
          /\ UNCHANGED exe
    /\ UNCHANGED <<up, run, files, self, latest, applying, rel, temp, todo, serverVars>>

(* download; the asset may be anything: SHA256SUMS is optional, and it is  *)
(* of the same release.                                                    *)
Download(t, file) ==
    /\ At(t, "fetch")
    /\ temp' = [temp EXCEPT ![t] = file]
    /\ Goto(t, "verify")
    /\ UNCHANGED <<up, run, files, self, latest, applying, rel, exe, todo, serverVars>>

(* No asset, no network, a wrong checksum, a full disk: download removes   *)
(* what it wrote.                                                          *)
DownloadFails(t) ==
    /\ At(t, "fetch")
    /\ Goto(t, "return")
    /\ UNCHANGED <<up, run, files, self, latest, applying, rel, exe, temp, todo, serverVars>>

(* verifyBinary: the file runs and reports the version of the release. *)
Genuine(t) == temp[t] = rel[t]

Verify(t) ==
    /\ At(t, "verify") /\ Genuine(t)
    /\ Goto(t, "remove")
    /\ UNCHANGED <<up, run, files, self, latest, applying, rel, exe, temp, todo, serverVars>>

(* Also a binary that is right may take longer than twenty seconds. *)
VerifyFails(t) ==
    /\ At(t, "verify")
    /\ Goto(t, "return")
    /\ UNCHANGED <<up, run, files, self, latest, applying, rel, exe, temp, todo, serverVars>>

(* os.Remove(prev), whose error is ignored *)
RemovePrevious(t) == LET prev == exe[t] + 1 IN
    /\ At(t, "remove")
    /\ \/ prev \in Places /\ files' = [files EXCEPT ![prev] = Absent]
       \/ UNCHANGED files
    /\ Goto(t, "backup")
    /\ UNCHANGED <<up, run, self, latest, applying, rel, exe, temp, todo, serverVars>>

(* The file that runs takes its new name with it. *)
MoveOld(t) == LET prev == exe[t] + 1 IN
    /\ At(t, "backup") /\ prev \in Places
    /\ files' = [files EXCEPT ![prev] = files[exe[t]], ![exe[t]] = Absent]
    /\ self' = prev
    /\ Goto(t, "install")
    /\ UNCHANGED <<up, run, latest, applying, rel, exe, temp, todo, serverVars>>

MoveOldFails(t) ==
    /\ At(t, "backup")
    /\ Goto(t, "return")
    /\ UNCHANGED <<up, run, files, self, latest, applying, rel, exe, temp, todo, serverVars>>

Install(t) ==
    /\ At(t, "install")
    /\ files' = [files EXCEPT ![exe[t]] = temp[t]]
    /\ temp' = [temp EXCEPT ![t] = Absent]
    /\ todo' = [todo EXCEPT ![t] = Servers]
    /\ Goto(t, "stop")
    /\ UNCHANGED <<up, run, self, latest, applying, rel, exe, serverVars>>

InstallFails(t) ==
    /\ At(t, "install")
    /\ Goto(t, "rollback")
    /\ UNCHANGED <<up, run, files, self, latest, applying, rel, exe, temp, todo, serverVars>>

RollBack(t) == LET prev == exe[t] + 1 IN
    /\ At(t, "rollback")
    /\ files' = [files EXCEPT ![exe[t]] = files[prev], ![prev] = Absent]
    /\ self' = exe[t]
    /\ Goto(t, "return")
    /\ UNCHANGED <<up, run, latest, applying, rel, exe, temp, todo, serverVars>>

RollBackFails(t) ==
    /\ At(t, "rollback")
    /\ Goto(t, "return")
    /\ UNCHANGED <<up, run, files, self, latest, applying, rel, exe, temp, todo, serverVars>>

(* PrepareRestart, which is Manager.StopAll: a server that is not running  *)
(* is passed over, the others are stopped.                                 *)
StopServer(t, s) ==
    /\ At(t, "stop") /\ s \in todo[t]
    /\ live' = live \ {s}
    /\ todo' = [todo EXCEPT ![t] = @ \ {s}]
    /\ UNCHANGED <<up, run, files, self, latest, applying, pc, rel, exe, temp, orphans>>

Stopped(t) ==
    /\ At(t, "stop") /\ todo[t] = {}
    /\ Goto(t, "exec")
    /\ UNCHANGED <<up, run, files, self, latest, applying, rel, exe, temp, todo, serverVars>>

(* restartProcess: the new program takes over the process, and with it the *)
(* children, of which it knows nothing.                                    *)
Exec(t) ==
    /\ At(t, "exec")
    /\ run' = files[exe[t]] /\ self' = exe[t]
    /\ Fresh
    /\ temp' = [u \in Appliers |-> Absent]   \* cleanupStale
    /\ orphans' = orphans \cup live
    /\ live' = {}
    /\ UNCHANGED <<up, files>>

ExecFails(t) ==
    /\ At(t, "exec")
    /\ Goto(t, "return")
    /\ UNCHANGED <<up, run, files, self, latest, applying, rel, exe, temp, todo, serverVars>>

(* The deferred functions: cleanup, then the end of the apply *)
CleanUp(t) == temp' = [temp EXCEPT ![t] = Absent]
Release_Forgotten == applying' = applying
Release == applying' = "no"

Return(t) ==
    /\ At(t, "return")
    /\ CleanUp(t)
    /\ Release
    /\ rel' = [rel EXCEPT ![t] = Absent]
    /\ exe' = [exe EXCEPT ![t] = 0]
    /\ Goto(t, "idle")
    /\ UNCHANGED <<up, run, files, self, latest, todo, serverVars>>
-----------------------------------------------------------------------------
(* A server is started by a button, a task, AutoStart or after a crash.    *)
(* The panel does not know of a process that an earlier one left.          *)
StartServer(s) ==
    /\ up = "yes" /\ s \notin live
    /\ live' = live \cup {s}
    /\ UNCHANGED <<up, run, files, self, latest, applying, callVars, temp, orphans>>

ServerExits(s) ==
    /\ s \in live \cup orphans
    /\ \/ live' = live \ {s} /\ UNCHANGED orphans
       \/ orphans' = orphans \ {s} /\ UNCHANGED live
    /\ UNCHANGED <<up, run, files, self, latest, applying, callVars, temp>>

(* The panel ends, by a signal or a crash; temporary files stay. *)
Crash ==
    /\ up = "yes"
    /\ up' = "no"
    /\ Fresh
    /\ orphans' = orphans \cup live
    /\ live' = {}
    /\ UNCHANGED <<run, files, self, temp>>

(* The panel is started again; StartLoop calls cleanupStale. *)
Boot ==
    /\ up = "no" /\ files[0] # Absent
    /\ up' = "yes"
    /\ run' = files[0] /\ self' = 0
    /\ temp' = [t \in Appliers |-> Absent]
    /\ UNCHANGED <<files, latest, applying, callVars, serverVars>>

(* The manual rollback that .previous is kept for: the next file that      *)
(* there is takes the executable's place.                                  *)
Restore ==
    /\ up = "no"
    /\ \E i \in Places \ {0} :
          /\ files[i] # Absent /\ \A j \in 1..i - 1 : files[j] = Absent
          /\ files' = [files EXCEPT ![0] = files[i], ![i] = Absent]
    /\ UNCHANGED <<up, run, self, latest, applying, callVars, temp, serverVars>>

Apply(t) ==
    \/ Refuse(t) \/ Begin(t) \/ Examine(t)
    \/ (\E file \in Versions \cup {Broken} : Download(t, file))
    \/ DownloadFails(t) \/ Verify(t) \/ VerifyFails(t)
    \/ RemovePrevious(t) \/ MoveOld(t) \/ MoveOldFails(t)
    \/ Install(t) \/ InstallFails(t) \/ RollBack(t) \/ RollBackFails(t)
    \/ (\E s \in Servers : StopServer(t, s))
    \/ Stopped(t) \/ Exec(t) \/ ExecFails(t) \/ Return(t)

Next ==
    \/ \E t \in Appliers : Ask(t) \/ Apply(t)
    \/ \E v \in Versions : Check(v)
    \/ \E s \in Servers : StartServer(s) \/ ServerExits(s)
    \/ Crash \/ Boot \/ Restore

Spec == Init /\ [][Next]_vars

(* Every call inside of Apply returns: requests and the run of the new     *)
(* binary have time limits, and Stop kills a server that does not end.     *)
FairSpec == Spec /\ \A t \in Appliers : WF_vars(Apply(t))
-----------------------------------------------------------------------------
(* The first file that there is, in its place or as .previous *)
IsFirst(i) == files[i] # Absent /\ \A j \in 0..i - 1 : files[j] = Absent
First == CHOOSE i \in Places : IsFirst(i)

(* Whenever the panel dies there is an executable that works: in its place *)
(* or, between the two renames or when both failed, as .previous - or as   *)
(* .previous of .previous, when that happens to an update after a restart  *)
(* or a rollback that failed; nothing else is ever left at these names     *)
(* (update.go 231-244).                                                    *)
Restorable ==
    /\ \E i \in Places : IsFirst(i)
    /\ \A i \in Places : files[i] \in Versions \cup {Absent}

(* A running panel has at most the temporary file of the apply under way:  *)
(* every error path of Apply removes its file and the start of the panel   *)
(* removes what a crash left (update.go 225, 454-466).                 *)
NoStrayFile ==
    up = "yes" =>
      /\ \A t \in Appliers : temp[t] # Absent => pc[t] \in Holding \cup {"return"}
      /\ \A t, u \in Appliers : temp[t] # Absent /\ temp[u] # Absent => t = u

(* What is started next, what runs, and whether what runs is that file *)
binary == files[First]
running == IF up = "yes" THEN run ELSE 0
home == IF up = "yes" /\ IsFirst(self) THEN "yes" ELSE "no"

Executable == INSTANCE PanelExecutable WITH binary <- binary, running <- running, home <- home

(* The swap by two renames, with crashes, failures, the rollback and       *)
(* further applies after a rollback or a restart that failed, is an atomic *)
(* replacement by a newer version; but only the first one since the panel  *)
(* was started replaces what the next start finds (update.go 185-258).     *)
SwapIsAtomic == Executable!Spec

(* Nothing keeps m.applying set: on every path Apply gives it back, or the *)
(* process is replaced or dies (update.go 195-202).                        *)
ApplyEnds == (applying = "yes") ~> (applying = "no")
=============================================================================
