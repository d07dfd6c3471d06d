--------------------------- MODULE UpdaterProofs ---------------------------
(***************************************************************************)
(* Proofs about Updater, for any number of concurrent calls, any releases, *)
(* any servers, and however often .previous fits into a name.              *)
(*                                                                         *)
(* The inductive invariant says what each step of Apply may rely on: it is *)
(* alone past the test of m.applying, its release is newer than the        *)
(* running version, its executable is the file that runs or, after the     *)
(* first rename, the place before that file, and the file that runs is     *)
(* never removed under it.                                                 *)
(***************************************************************************)
EXTENDS Updater, TLAPS

Alone ==
    /\ \A t \in Appliers : pc[t] \in Inside => applying = "yes" /\ up = "yes"
    /\ \A t, u \in Appliers : pc[t] \in Inside /\ pc[u] \in Inside => t = u
    /\ up = "no" => \A t \in Appliers : pc[t] = "idle"

Upgrading == {"fetch", "verify", "remove", "backup", "install", "rollback", "stop", "exec"}

Chosen == \A t \in Appliers : pc[t] \in Upgrading => rel[t] \in Versions /\ rel[t] > run

InPlace == {"fetch", "verify", "remove", "backup"}
Renamed == {"install", "rollback", "stop", "exec"}

Placed ==
    \A t \in Appliers :
      /\ pc[t] \in InPlace => exe[t] = self
      /\ pc[t] \in {"remove", "backup", "install", "rollback"} => temp[t] = rel[t]
      /\ pc[t] \in Renamed => self = exe[t] + 1
      /\ pc[t] \in {"install", "rollback"} => files[exe[t]] = Absent
      /\ pc[t] \in {"stop", "exec"} => files[exe[t]] = rel[t]

Running == up = "yes" => files[self] = run

Temporary ==
    up = "yes" => \A t \in Appliers : temp[t] # Absent => pc[t] \in Holding \cup {"return"}

IInv == TypeOK /\ Alone /\ Chosen /\ Placed /\ Restorable /\ Running /\ Temporary

LEMMA VersionFacts ==
    /\ Absent \notin Versions /\ Broken \notin Versions /\ Absent # Broken
    /\ \A v \in Versions : v \in Nat /\ v # 0
BY UpdaterAssumption DEF Absent, Broken

LEMMA PlaceFacts ==
    /\ 0 \in Places /\ \A i \in Places : i \in Nat /\ (i # Depth => i + 1 \in Places)
    /\ \A i, j \in Places : j < i <=> j \in 0..i - 1
    /\ \A i \in Places : \A j \in 0..i - 1 : j \in Places
BY UpdaterAssumption DEF Places

LEMMA InitIInv == Init => IInv
<1> SUFFICES ASSUME Init PROVE IInv
  OBVIOUS
<1> USE VersionFacts, PlaceFacts DEF Init
<1>1. TypeOK
  BY DEF TypeOK, Binaries, Steps
<1>2. Alone /\ Chosen /\ Placed /\ Temporary
  BY DEF Alone, Chosen, Placed, Temporary, Inside, Upgrading, InPlace, Renamed, Holding
<1>3. Restorable /\ Running
  <2>1. IsFirst(0)
    BY DEF IsFirst
  <2>2. QED
    BY <2>1 DEF Restorable, Running
<1>4. QED
  BY <1>1, <1>2, <1>3 DEF IInv

(* A step of a call that only moves its program counter keeps the invariant *)
(* when it goes back to the start or out, or brings what the step demands. *)
LEMMA Moved ==
    ASSUME IInv, NEW t \in Appliers, NEW step \in Steps, up = "yes", Goto(t, step),
           UNCHANGED <<up, run, files, self, latest, applying, rel, temp, todo, serverVars>>,
           exe' = exe \/ (exe' = [exe EXCEPT ![t] = self] /\ step = "fetch"),
           step \in Inside => pc[t] \in Inside,
           temp[t] # Absent => step \in Holding \cup {"return"},
           step \in Upgrading => rel[t] \in Versions /\ rel[t] > run,
           step \in InPlace => exe'[t] = self,
           step \in {"remove", "backup", "install", "rollback"} => temp[t] = rel[t],
           step \in Renamed => self = exe[t] + 1,
           step \in {"install", "rollback"} => files[exe[t]] = Absent,
           step \in {"stop", "exec"} => files[exe[t]] = rel[t]
    PROVE  IInv'
<1>0. /\ pc' = [pc EXCEPT ![t] = step]
      /\ UNCHANGED <<up, run, files, self, latest, applying, rel, temp, todo, live, orphans>>
  BY DEF Goto, serverVars
<1>1. TypeOK'
  BY <1>0 DEF IInv, TypeOK
<1>2. Alone'
  BY <1>0 DEF IInv, Alone, TypeOK
<1>3. Chosen'
  BY <1>0 DEF IInv, Chosen, TypeOK
<1>4. Placed'
  <2> SUFFICES ASSUME NEW u \in Appliers
               PROVE  /\ pc'[u] \in InPlace => exe'[u] = self
                      /\ pc'[u] \in {"remove", "backup", "install", "rollback"} => temp[u] = rel[u]
                      /\ pc'[u] \in Renamed => self = exe'[u] + 1
                      /\ pc'[u] \in {"install", "rollback"} => files[exe'[u]] = Absent
                      /\ pc'[u] \in {"stop", "exec"} => files[exe'[u]] = rel[u]
    BY <1>0 DEF Placed
  <2>1. CASE u = t
    BY <1>0, <2>1 DEF IInv, TypeOK, InPlace, Renamed
  <2>2. CASE u # t
    BY <1>0, <2>2 DEF IInv, Placed, TypeOK
  <2>3. QED
    BY <2>1, <2>2
<1>5. Restorable' /\ Running'
  BY <1>0 DEF IInv, Restorable, Running, IsFirst
<1>6. Temporary'
  BY <1>0 DEF IInv, Temporary, TypeOK
<1>7. QED
  BY <1>1, <1>2, <1>3, <1>4, <1>5, <1>6 DEF IInv

(* Nothing but the cached release and the servers change. *)
LEMMA Aside ==
    ASSUME IInv, TypeOK', UNCHANGED <<up, run, files, self, applying, callVars, temp>>
    PROVE  IInv'
BY DEF IInv, Alone, Chosen, Placed, Restorable, Running, Temporary, IsFirst, callVars

LEMMA MovesKeepIInv ==
    ASSUME IInv, NEW t \in Appliers,
           \/ Ask(t) \/ Refuse(t) \/ Examine(t) \/ DownloadFails(t) \/ Verify(t)
           \/ VerifyFails(t) \/ MoveOldFails(t) \/ InstallFails(t) \/ RollBackFails(t)
           \/ Stopped(t) \/ ExecFails(t)
    PROVE  IInv'
<1> USE DEF At, Steps, Inside, Holding, Upgrading, InPlace, Renamed
<1>1. CASE Ask(t)
  BY <1>1, Moved DEF Ask, IInv, Temporary
<1>2. CASE Refuse(t)
  BY <1>2, Moved DEF Refuse, IInv, Temporary
<1>3. CASE Examine(t)
  <2>1. CASE Worthwhile(t) /\ Located
    BY <1>3, <2>1, Moved DEF Examine, Worthwhile, Located, Newer, IInv, Temporary, TypeOK
  <2>2. CASE ~(Worthwhile(t) /\ Located)
    BY <1>3, <2>2, Moved DEF Examine, IInv, Temporary
  <2>3. QED
    BY <2>1, <2>2
<1>4. CASE DownloadFails(t)
  BY <1>4, Moved DEF DownloadFails
<1>5. CASE Verify(t)
  BY <1>5, Moved DEF Verify, Genuine, IInv, Chosen, Placed
<1>6. CASE VerifyFails(t)
  BY <1>6, Moved DEF VerifyFails
<1>7. CASE MoveOldFails(t)
  BY <1>7, Moved DEF MoveOldFails
<1>8. CASE InstallFails(t)
  BY <1>8, Moved DEF InstallFails, IInv, Chosen, Placed
<1>9. CASE RollBackFails(t)
  BY <1>9, Moved DEF RollBackFails
<1>10. CASE Stopped(t)
  BY <1>10, Moved DEF Stopped, IInv, Chosen, Placed, Temporary
<1>11. CASE ExecFails(t)
  BY <1>11, Moved DEF ExecFails
<1>12. QED
  BY <1>1, <1>2, <1>3, <1>4, <1>5, <1>6, <1>7, <1>8, <1>9, <1>10, <1>11

(* The calls that change a file, the lock, or the process *)
LEMMA BeginKeepsIInv ==
    ASSUME IInv, NEW t \in Appliers, Begin(t)
    PROVE  IInv'
<1> USE DEF IInv, TypeOK, Begin, At, Goto, Steps, Inside, serverVars
<1>1. TypeOK' /\ Restorable' /\ Running'
  BY DEF Restorable, Running, IsFirst
<1>2. Alone'
  BY DEF Alone
<1>3. Chosen' /\ Placed'
  BY DEF Chosen, Placed, Upgrading, InPlace, Renamed
<1>4. Temporary'
  BY DEF Temporary, Holding
<1>5. QED
  BY <1>1, <1>2, <1>3, <1>4

LEMMA DownloadKeepsIInv ==
    ASSUME IInv, NEW t \in Appliers, NEW file \in Versions \cup {Broken}, Download(t, file)
    PROVE  IInv'
<1> USE DEF IInv, TypeOK, Download, At, Goto, Steps, Inside, serverVars
<1>1. TypeOK' /\ Restorable' /\ Running'
  BY DEF Restorable, Running, IsFirst, Binaries
<1>2. Alone'
  BY DEF Alone
<1>3. Chosen'
  BY DEF Chosen, Upgrading
<1>4. Placed'
  BY DEF Placed, InPlace, Renamed
<1>5. Temporary'
  BY DEF Temporary, Holding
<1>6. QED
  BY <1>1, <1>2, <1>3, <1>4, <1>5
-----------------------------------------------------------------------------
(* The first file: it is not behind the one that runs, and each call of    *)
(* the file system moves it as it should.                                  *)
FirstOf(f, i) == f[i] # Absent /\ \A j \in 0..i - 1 : f[j] = Absent

LEMMA FirstIs == ASSUME NEW i \in Places, IsFirst(i) PROVE First = i
<1>1. ASSUME NEW j \in Places, IsFirst(j) PROVE j = i
  <2>1. i \in Int /\ j \in Int
    BY PlaceFacts
  <2>2. ~(i < j) /\ ~(j < i)
    BY <1>1, PlaceFacts DEF IsFirst
  <2>3. QED
    BY <2>1, <2>2
<1>2. QED
  BY <1>1 DEF First

LEMMA FirstNotBehind ==
    ASSUME NEW f, NEW i \in Places, FirstOf(f, i), NEW j \in Places, f[j] # Absent
    PROVE  i <= j
<1>1. i \in Int /\ j \in Int /\ ~(j < i)
  BY PlaceFacts DEF FirstOf
<1>2. QED
  BY <1>1

LEMMA FirstKept ==
    ASSUME NEW f \in [Places -> Binaries], NEW e \in Places, f[e] # Absent,
           NEW g, g = f \/ g = [f EXCEPT ![e + 1] = Absent],
           NEW i \in Places, FirstOf(f, i)
    PROVE  FirstOf(g, i) /\ g[i] = f[i] /\ i <= e
<1>1. i <= e /\ e \in Int /\ i \in Int
  BY FirstNotBehind, PlaceFacts
<1>2. g[i] = f[i]
  BY <1>1
<1>3. \A j \in 0..i - 1 : g[j] = Absent
  BY <1>1, PlaceFacts DEF FirstOf
<1>4. QED
  BY <1>1, <1>2, <1>3 DEF FirstOf

Shifted(f, e, p) == [f EXCEPT ![p] = f[e], ![e] = Absent]

LEMMA FirstMoved ==
    ASSUME NEW f \in [Places -> Binaries], NEW e \in Places, NEW p \in Places, p = e + 1,
           f[e] # Absent, NEW i \in Places, FirstOf(f, i)
    PROVE  \/ i < e /\ FirstOf(Shifted(f, e, p), i) /\ Shifted(f, e, p)[i] = f[i]
           \/ i = e /\ FirstOf(Shifted(f, e, p), p) /\ Shifted(f, e, p)[p] = f[e]
<1> DEFINE g == Shifted(f, e, p)
<1>0. g = [f EXCEPT ![p] = f[e], ![e] = Absent]
  BY DEF Shifted
<1> HIDE DEF g
<1>1. i <= e /\ e \in Int /\ i \in Int /\ e >= 0
  BY FirstNotBehind, PlaceFacts
<1>2. CASE i < e
  <2>1. g[i] = f[i] /\ \A j \in 0..i - 1 : g[j] = f[j]
    BY <1>0, <1>1, <1>2, PlaceFacts
  <2>2. QED
    BY <1>2, <2>1 DEF FirstOf, g
<1>3. CASE i = e
  <2>1. g[p] = f[e] /\ g[e] = Absent /\ \A j \in 0..e - 1 : g[j] = f[j]
    BY <1>0, <1>1, PlaceFacts
  <2>2. \A j \in 0..p - 1 : j = e \/ j \in 0..e - 1
    BY <1>1
  <2>3. FirstOf(g, p)
    BY <1>3, <2>1, <2>2 DEF FirstOf
  <2>4. QED
    BY <1>3, <2>1, <2>3 DEF g
<1>4. QED
  BY <1>1, <1>2, <1>3

(* Install and RollBack put a file into the place that MoveOld has emptied; *)
(* w is what is left at the next place.                                    *)
Put(f, e, p, v, w) == [f EXCEPT ![e] = v, ![p] = w]

LEMMA FirstPut ==
    ASSUME NEW f \in [Places -> Binaries], NEW e \in Places, NEW p \in Places, p = e + 1,
           f[e] = Absent, f[p] # Absent, NEW v \in Binaries, v # Absent, NEW w,
           NEW i \in Places, FirstOf(f, i)
    PROVE  \/ i < e /\ FirstOf(Put(f, e, p, v, w), i) /\ Put(f, e, p, v, w)[i] = f[i]
           \/ i = p /\ FirstOf(Put(f, e, p, v, w), e) /\ Put(f, e, p, v, w)[e] = v
<1> DEFINE g == Put(f, e, p, v, w)
<1>0. g = [f EXCEPT ![e] = v, ![p] = w]
  BY DEF Put
<1> HIDE DEF g
<1>1. i <= p /\ i # e /\ e \in Int /\ i \in Int /\ e >= 0
  BY FirstNotBehind, PlaceFacts DEF FirstOf
<1>2. CASE i < e
  <2>1. g[i] = f[i] /\ \A j \in 0..i - 1 : g[j] = f[j]
    BY <1>0, <1>1, <1>2, PlaceFacts
  <2>2. QED
    BY <1>2, <2>1 DEF FirstOf, g
<1>3. CASE i = p
  <2>1. g[e] = v /\ \A j \in 0..e - 1 : g[j] = f[j]
    BY <1>0, <1>1, PlaceFacts
  <2>2. \A j \in 0..e - 1 : j \in 0..i - 1
    BY <1>1, <1>3
  <2>3. FirstOf(g, e)
    BY <1>3, <2>1, <2>2 DEF FirstOf
  <2>4. QED
    BY <1>3, <2>1, <2>3 DEF g
<1>4. QED
  BY <1>1, <1>2, <1>3

(* What the four calls do, in a state that the invariant describes         *)
LEMMA FileFacts ==
    ASSUME IInv, NEW t \in Appliers
    PROVE  LET e == exe[t] IN
           /\ At(t, "remove") \/ At(t, "backup") =>
                 e = self /\ files[e] # Absent /\ files[e] = run
           /\ At(t, "install") \/ At(t, "rollback") =>
                 /\ self = e + 1 /\ e + 1 \in Places /\ files[e] = Absent
                 /\ files[e + 1] = run /\ run # Absent
                 /\ temp[t] = rel[t] /\ rel[t] \in Versions /\ rel[t] > run /\ rel[t] # Absent
BY VersionFacts DEF IInv, TypeOK, Placed, InPlace, Renamed, Running, At, Chosen, Upgrading

LEMMA FirstAfter ==
    ASSUME IInv, NEW t \in Appliers,
           RemovePrevious(t) \/ MoveOld(t) \/ Install(t) \/ RollBack(t),
           NEW i \in Places, FirstOf(files, i)
    PROVE  \E k \in Places :
              /\ FirstOf(files', k)
              /\ \/ /\ files'[k] = files[i] /\ (self' = k <=> self = i)
                 \/ /\ Install(t) /\ self = i /\ self' # k /\ files'[k] = rel[t]
<1> DEFINE e == exe[t]
<1>0. files \in [Places -> Binaries] /\ e \in Places /\ self \in Places /\ run \in Binaries
  BY DEF IInv, TypeOK, Binaries
<1>00. e \in Int /\ self \in Int /\ i \in Int
  BY <1>0, PlaceFacts
<1> HIDE DEF e
<1>1. CASE RemovePrevious(t)
  <2>1. e = self /\ files[e] # Absent /\ UNCHANGED self
    BY <1>1, FileFacts DEF RemovePrevious, e
  <2>2. files' = files \/ files' = [files EXCEPT ![e + 1] = Absent]
    BY <1>1 DEF RemovePrevious, e
  <2>3. FirstOf(files', i) /\ files'[i] = files[i]
    BY <1>0, <2>1, <2>2, FirstKept
  <2>4. QED
    BY <2>1, <2>3
<1>2. CASE MoveOld(t)
  <2>1. e = self /\ files[e] # Absent
    BY <1>2, FileFacts DEF MoveOld, e
  <2>2. files' = Shifted(files, e, e + 1) /\ self' = e + 1 /\ e + 1 \in Places
    BY <1>2 DEF MoveOld, Shifted, e
  <2>3. \/ i < e /\ FirstOf(files', i) /\ files'[i] = files[i]
        \/ i = e /\ FirstOf(files', e + 1) /\ files'[e + 1] = files[e]
    BY <1>0, <2>1, <2>2, FirstMoved
  <2>4. QED
    BY <1>00, <2>1, <2>2, <2>3
<1>3. CASE Install(t)
  <2>1. /\ self = e + 1 /\ e + 1 \in Places /\ files[e] = Absent /\ files[e + 1] # Absent
        /\ temp[t] = rel[t] /\ rel[t] \in Binaries /\ rel[t] # Absent
    BY <1>3, FileFacts DEF Install, Binaries, e
  <2>2. files' = Put(files, e, e + 1, rel[t], files[e + 1]) /\ self' = self
    <3>1. files' = [files EXCEPT ![e] = rel[t]] /\ self' = self /\ e + 1 # e
      BY <1>00, <1>3, <2>1 DEF Install, e
    <3>2. QED
      BY <1>0, <2>1, <3>1 DEF Put
  <2>3. \/ i < e /\ FirstOf(files', i) /\ files'[i] = files[i]
        \/ i = e + 1 /\ FirstOf(files', e) /\ files'[e] = rel[t]
    BY <1>0, <2>1, <2>2, FirstPut
  <2>4. QED
    BY <1>0, <1>00, <1>3, <2>1, <2>2, <2>3
<1>4. CASE RollBack(t)
  <2>1. /\ self = e + 1 /\ e + 1 \in Places /\ files[e] = Absent
        /\ files[e + 1] # Absent /\ files[e + 1] \in Binaries
    BY <1>0, <1>4, FileFacts DEF RollBack, e
  <2>2. files' = Put(files, e, e + 1, files[e + 1], Absent) /\ self' = e
    BY <1>4 DEF RollBack, Put, e
  <2>3. \/ i < e /\ FirstOf(files', i) /\ files'[i] = files[i]
        \/ i = e + 1 /\ FirstOf(files', e) /\ files'[e] = files[e + 1]
    BY <1>0, <2>1, <2>2, FirstPut
  <2>4. QED
    BY <1>0, <1>00, <2>1, <2>2, <2>3
<1>5. QED
  BY <1>1, <1>2, <1>3, <1>4

LEMMA FilesKeepIInv ==
    ASSUME IInv, NEW t \in Appliers,
           RemovePrevious(t) \/ MoveOld(t) \/ Install(t) \/ RollBack(t)
    PROVE  IInv'
<1> USE VersionFacts DEF IInv, TypeOK, RemovePrevious, MoveOld, Install, RollBack,
        At, Goto, Steps, Inside, serverVars
<1>0. /\ up = "yes" /\ files \in [Places -> Binaries] /\ exe[t] \in Places
      /\ exe[t] \in Int /\ exe[t] + 1 # exe[t]
  BY PlaceFacts
<1>01. /\ files' \in [Places -> Binaries] /\ self' \in Places
       /\ \A k \in Places : files'[k] \in Versions \cup {Absent}
  <2>1. \A k \in Places : files[k] \in Versions \cup {Absent}
    BY DEF Restorable
  <2>2. CASE RemovePrevious(t)
    BY <1>0, <2>1, <2>2 DEF Binaries
  <2>3. CASE MoveOld(t)
    BY <1>0, <2>1, <2>3 DEF Binaries
  <2>4. CASE Install(t)
    <3>1. temp[t] \in Versions
      BY <2>4, FileFacts
    <3>2. QED
      BY <1>0, <2>1, <2>4, <3>1 DEF Binaries
  <2>5. CASE RollBack(t)
    <3>1. files[exe[t] + 1] \in Versions
      BY <2>5, FileFacts
    <3>2. QED
      BY <1>0, <2>1, <2>5, <3>1 DEF Binaries
  <2>6. QED
    BY <2>2, <2>3, <2>4, <2>5
<1>1. TypeOK'
  BY <1>0, <1>01 DEF Binaries
<1>2. Alone'
  BY DEF Alone
<1>3. Chosen'
  BY DEF Chosen, Upgrading
<1>4. Placed'
  <2> SUFFICES ASSUME NEW u \in Appliers
               PROVE  /\ pc'[u] \in InPlace => exe'[u] = self'
                      /\ pc'[u] \in {"remove", "backup", "install", "rollback"} => temp'[u] = rel'[u]
                      /\ pc'[u] \in Renamed => self' = exe'[u] + 1
                      /\ pc'[u] \in {"install", "rollback"} => files'[exe'[u]] = Absent
                      /\ pc'[u] \in {"stop", "exec"} => files'[exe'[u]] = rel'[u]
    BY DEF Placed
  <2>1. CASE u = t
    BY <1>0, <2>1 DEF Placed, InPlace, Renamed
  <2>2. CASE u # t
    BY <1>0, <2>2 DEF Alone, InPlace, Renamed
  <2>3. QED
    BY <2>1, <2>2
<1>5. Restorable'
  <2>1. PICK i \in Places : FirstOf(files, i)
    BY DEF Restorable, IsFirst, FirstOf
  <2>2. \E k \in Places : FirstOf(files', k)
    BY <2>1, FirstAfter
  <2>3. QED
    BY <1>01, <2>2 DEF Restorable, IsFirst, FirstOf
<1>6. Running'
  BY <1>0, FileFacts DEF Running
<1>7. Temporary'
  BY DEF Temporary, Holding
<1>8. QED
  BY <1>1, <1>2, <1>3, <1>4, <1>5, <1>6, <1>7

LEMMA ReturnKeepsIInv ==
    ASSUME IInv, NEW t \in Appliers, Return(t)
    PROVE  IInv'
<1> USE PlaceFacts DEF IInv, TypeOK, Return, CleanUp, Release, At, Goto, Steps, Inside, serverVars
<1>1. TypeOK' /\ Restorable' /\ Running'
  BY DEF Restorable, Running, IsFirst, Binaries
<1>2. Alone'
  BY DEF Alone
<1>3. Chosen' /\ Placed'
  BY DEF Chosen, Placed, Upgrading, InPlace, Renamed, Alone
<1>4. Temporary'
  BY DEF Temporary, Holding
<1>5. QED
  BY <1>1, <1>2, <1>3, <1>4

LEMMA StopServerKeepsIInv ==
    ASSUME IInv, NEW t \in Appliers, NEW s \in Servers, StopServer(t, s)
    PROVE  IInv'
BY DEF IInv, TypeOK, StopServer, At, Alone, Chosen, Placed, Restorable, Running,
       Temporary, IsFirst

(* Nobody is inside after the process is replaced or has died. *)
LEMMA FreshKeepsIInv ==
    ASSUME IInv, (\E t \in Appliers : Exec(t)) \/ Crash
    PROVE  IInv'
<1> USE VersionFacts, PlaceFacts DEF IInv, TypeOK, Exec, Crash, Fresh, At, Steps, Inside
<1>1. TypeOK'
  BY DEF Binaries, Placed, Chosen, Upgrading
<1>2. Alone' /\ Chosen' /\ Placed'
  BY DEF Alone, Chosen, Placed, Upgrading, InPlace, Renamed
<1>3. Restorable' /\ Running'
  BY DEF Restorable, Running, IsFirst
<1>4. Temporary'
  BY DEF Temporary
<1>5. QED
  BY <1>1, <1>2, <1>3, <1>4

LEMMA BootKeepsIInv ==
    ASSUME IInv, Boot \/ Restore
    PROVE  IInv'
<1> USE VersionFacts, PlaceFacts DEF IInv, TypeOK, Boot, Restore, Steps, Inside, callVars, serverVars
<1>1. TypeOK'
  BY DEF Restorable, Binaries
<1>2. Alone' /\ Chosen' /\ Placed'
  BY DEF Alone, Chosen, Placed, Upgrading, InPlace, Renamed
<1>3. Restorable' /\ Running'
  <2>1. CASE Boot
    BY <2>1 DEF Restorable, Running, IsFirst
  <2>2. CASE Restore
    <3>1. files'[0] # Absent
      BY <2>2
    <3>2. IsFirst(0)'
      BY <3>1 DEF IsFirst
    <3>3. \A k \in Places : files'[k] \in Versions \cup {Absent}
      BY <2>2 DEF Restorable
    <3>4. Restorable'
      BY <3>2, <3>3 DEF Restorable
    <3>5. QED
      BY <2>2, <3>4 DEF Running
  <2>3. QED
    BY <2>1, <2>2
<1>4. Temporary'
  BY DEF Temporary
<1>5. QED
  BY <1>1, <1>2, <1>3, <1>4

LEMMA NextIInv == IInv /\ [Next]_vars => IInv'
<1> SUFFICES ASSUME IInv, [Next]_vars
             PROVE  IInv'
  OBVIOUS
<1>1. ASSUME NEW t \in Appliers, Ask(t) \/ Apply(t)
      PROVE  IInv'
  BY <1>1, MovesKeepIInv, BeginKeepsIInv, DownloadKeepsIInv, FilesKeepIInv,
     ReturnKeepsIInv, StopServerKeepsIInv, FreshKeepsIInv DEF Apply
<1>2. ASSUME NEW v \in Versions, Check(v)
      PROVE  IInv'
  BY <1>2, Aside DEF Check, IInv, TypeOK, callVars, serverVars
<1>3. ASSUME NEW s \in Servers, StartServer(s) \/ ServerExits(s)
      PROVE  IInv'
  BY <1>3, Aside DEF StartServer, ServerExits, IInv, TypeOK, callVars
<1>4. CASE Crash \/ Boot \/ Restore
  BY <1>4, FreshKeepsIInv, BootKeepsIInv
<1>5. CASE UNCHANGED vars
  BY <1>5, Aside DEF vars, IInv, TypeOK, callVars, serverVars
<1>6. QED
  BY <1>1, <1>2, <1>3, <1>4, <1>5 DEF Next

LEMMA Invariance == Spec => []IInv
<1>1. QED
  BY InitIInv, NextIInv, PTL DEF Spec

(* TypeOK holds for every number of calls, releases and servers. *)
THEOREM TypeCorrect == Spec => []TypeOK
<1>1. IInv => TypeOK
  BY DEF IInv
<1>2. QED
  BY <1>1, Invariance, PTL

(* Whenever the panel dies, during an update or not, an executable that    *)
(* works is in its place or is the next .previous, also when an earlier    *)
(* update of the same process could not be undone or restarted and this    *)
(* one works on .previous (update.go 211-258).                             *)
THEOREM AlwaysRestorable == Spec => []Restorable
<1>1. IInv => Restorable
  BY DEF IInv
<1>2. QED
  BY <1>1, Invariance, PTL

(* A running panel has no temporary file but that of the apply under way   *)
(* (update.go 225, 454-466).                                           *)
THEOREM NoStrayFiles == Spec => []NoStrayFile
<1>1. IInv => NoStrayFile
  <2>1. Holding \cup {"return"} \subseteq Inside
    BY DEF Holding, Inside, Steps
  <2>2. QED
    BY <2>1 DEF IInv, Alone, Temporary, NoStrayFile
<1>2. QED
  BY <1>1, Invariance, PTL

(* The two renames of Apply, with failures, the rollback, crashes and      *)
(* further applies of a process that now runs from .previous, implement an *)
(* atomic replacement of what is started next, or of what runs, by a newer *)
(* version (update.go 185-258).                                            *)
THEOREM AtomicSwap == Spec => SwapIsAtomic
<1> USE VersionFacts, PlaceFacts
<1>1. Init => Executable!Init
  <2> SUFFICES ASSUME Init PROVE Executable!Init
    OBVIOUS
  <2>1. IsFirst(0) /\ First = 0
    BY FirstIs DEF Init, IsFirst
  <2>2. QED
    BY <2>1 DEF Init, Executable!Init, binary, running, home
<1>2. IInv /\ IInv' /\ [Next]_vars => [Executable!Next]_Executable!execVars
  <2> SUFFICES ASSUME IInv, IInv', [Next]_vars
               PROVE  [Executable!Next]_Executable!execVars
    OBVIOUS
  <2> USE DEF Executable!execVars, Executable!Next
  <2>0. PICK i \in Places : FirstOf(files, i)
    BY DEF IInv, Restorable, IsFirst, FirstOf
  <2>1. /\ binary = files[i] /\ binary \in Versions
        /\ running = (IF up = "yes" THEN run ELSE 0)
        /\ home = (IF up = "yes" /\ self = i THEN "yes" ELSE "no")
    <3>1. IsFirst(i) /\ First = i
      BY <2>0, FirstIs DEF FirstOf, IsFirst
    <3>2. IsFirst(self) => self = i
      BY <3>1, FirstIs DEF IInv, TypeOK
    <3>3. QED
      BY <3>1, <3>2 DEF binary, running, home, IInv, Restorable, IsFirst
  <2>2. ASSUME NEW k \in Places, FirstOf(files', k)
        PROVE  /\ binary' = files'[k]
               /\ running' = (IF up' = "yes" THEN run' ELSE 0)
               /\ home' = (IF up' = "yes" /\ self' = k THEN "yes" ELSE "no")
    <3>1. IsFirst(k)'
      BY <2>2 DEF FirstOf, IsFirst
    <3>2. \A j \in Places : IsFirst(j)' => j = k
      <4> SUFFICES ASSUME NEW j \in Places, IsFirst(j)' PROVE j = k
        OBVIOUS
      <4>1. j \in Int /\ k \in Int /\ ~(j < k) /\ ~(k < j)
        BY <3>1 DEF IsFirst
      <4>2. QED
        BY <4>1
    <3>3. First' = k
      BY <3>1, <3>2 DEF First
    <3>4. self' \in Places
      BY DEF IInv, TypeOK
    <3>5. home' = (IF up' = "yes" /\ self' = k THEN "yes" ELSE "no")
      BY <3>1, <3>2, <3>4 DEF home
    <3>6. QED
      BY <3>3, <3>5 DEF binary, running
  <2>3. ASSUME UNCHANGED <<up, run, files, self>>
        PROVE  UNCHANGED <<binary, running, home>>
    BY <2>3, <2>0, <2>1, <2>2
  <2>4. ASSUME NEW t \in Appliers,
               RemovePrevious(t) \/ MoveOld(t) \/ Install(t) \/ RollBack(t)
        PROVE  [Executable!Next]_Executable!execVars
    <3>1. PICK k \in Places :
              /\ FirstOf(files', k)
              /\ \/ /\ files'[k] = files[i] /\ (self' = k <=> self = i)
                 \/ /\ Install(t) /\ self = i /\ self' # k /\ files'[k] = rel[t]
      BY <2>0, <2>4, FirstAfter
    <3>2. up = "yes" /\ UNCHANGED <<up, run>>
      BY <2>4 DEF RemovePrevious, MoveOld, Install, RollBack, At
    <3>3. CASE files'[k] = files[i] /\ (self' = k <=> self = i)
      BY <2>1, <2>2, <3>1, <3>2, <3>3
    <3>4. CASE Install(t) /\ self = i /\ self' # k /\ files'[k] = rel[t]
      <4>1. rel[t] \in Versions /\ rel[t] > run
        BY <3>4, FileFacts DEF Install
      <4>2. Executable!Install(rel[t])
        BY <2>1, <2>2, <3>1, <3>2, <3>4, <4>1 DEF Executable!Install
      <4>3. QED
        BY <4>1, <4>2
    <3>5. QED
      BY <3>1, <3>3, <3>4
  <2>5. ASSUME NEW t \in Appliers, Exec(t)
        PROVE  [Executable!Next]_Executable!execVars
    <3>1. /\ up = "yes" /\ up' = "yes" /\ files' = files
          /\ run' = files[exe[t]] /\ self' = exe[t]
      BY <2>5 DEF Exec, At
    <3>2. /\ self = exe[t] + 1 /\ files[exe[t]] = rel[t] /\ rel[t] \in Versions /\ rel[t] > run
          /\ rel[t] # Absent /\ exe[t] \in Places /\ run # Absent
      BY <2>5 DEF Exec, At, IInv, TypeOK, Placed, Renamed, Chosen, Upgrading
    <3>3. i <= exe[t] /\ self # i /\ run # 0
      BY <2>0, <3>2, FirstNotBehind DEF Absent
    <3>4. binary' = binary /\ home = "no" /\ running = run /\ running' = rel[t]
          /\ home' = (IF exe[t] = i THEN "yes" ELSE "no")
      BY <2>0, <2>1, <2>2, <3>1, <3>2, <3>3
    <3>5. CASE exe[t] = i
      BY <2>1, <3>2, <3>4, <3>5 DEF Executable!Restart
    <3>6. CASE exe[t] # i
      <4>1. Executable!Overtake(rel[t])
        BY <3>2, <3>3, <3>4, <3>6 DEF Executable!Overtake, Executable!Down
      <4>2. QED
        BY <3>2, <4>1
    <3>7. QED
      BY <3>5, <3>6
  <2>6. ASSUME NEW t \in Appliers, Ask(t) \/ Apply(t)
        PROVE  [Executable!Next]_Executable!execVars
    <3>1. CASE \/ Ask(t) \/ Refuse(t) \/ Begin(t) \/ Examine(t)
               \/ (\E file \in Versions \cup {Broken} : Download(t, file))
               \/ DownloadFails(t) \/ Verify(t) \/ VerifyFails(t) \/ MoveOldFails(t)
               \/ InstallFails(t) \/ RollBackFails(t) \/ (\E s \in Servers : StopServer(t, s))
               \/ Stopped(t) \/ ExecFails(t) \/ Return(t)
      BY <2>3, <3>1 DEF Ask, Refuse, Begin, Examine, Download, DownloadFails, Verify,
         VerifyFails, MoveOldFails, InstallFails, RollBackFails, StopServer, Stopped,
         ExecFails, Return
    <3>2. QED
      BY <2>4, <2>5, <2>6, <3>1 DEF Apply
  <2>7. CASE Crash
    <3>1. up' = "no" /\ files' = files
      BY <2>7 DEF Crash
    <3>2. QED
      BY <2>0, <2>1, <2>2, <3>1 DEF Executable!Stop, Executable!Down
  <2>8. CASE Boot
    <3>1. FirstOf(files, 0) /\ files' = files /\ up' = "yes" /\ run' = files[0] /\ self' = 0
      BY <2>8 DEF Boot, FirstOf
    <3>2. i = 0
      BY <2>0, <3>1, FirstNotBehind DEF FirstOf
    <3>3. QED
      BY <2>1, <2>2, <3>1, <3>2 DEF Executable!Restart
  <2>9. CASE Restore
    <3>1. PICK k \in Places : FirstOf(files', k)
      BY DEF IInv, Restorable, IsFirst, FirstOf
    <3>2. binary' \in Versions
      BY <2>2, <3>1 DEF IInv, Restorable, FirstOf
    <3>3. up = "no" /\ up' = "no"
      BY <2>9 DEF Restore
    <3>4. Executable!Replace(binary')
      BY <2>1, <2>2, <3>1, <3>3 DEF Executable!Replace, Executable!Down
    <3>5. QED
      BY <3>2, <3>4
  <2>10. ASSUME (\E v \in Versions : Check(v))
                \/ (\E s \in Servers : StartServer(s) \/ ServerExits(s)) \/ UNCHANGED vars
         PROVE  UNCHANGED <<binary, running, home>>
    BY <2>10, <2>3 DEF Check, StartServer, ServerExits, vars
  <2>11. QED
    BY <2>6, <2>7, <2>8, <2>9, <2>10 DEF Next
<1>3. QED
  BY <1>1, <1>2, Invariance, PTL DEF Spec, SwapIsAtomic, Executable!Spec
=============================================================================
