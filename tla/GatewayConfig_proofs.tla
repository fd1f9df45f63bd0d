------------------------ MODULE GatewayConfig_proofs ------------------------
(***************************************************************************)
(* For every set of writers and of tokens: the types of GatewayConfig,     *)
(* that writes of the console compose, that a pairing lasts and that a     *)
(* token deleted from the file is forgotten.                               *)
(***************************************************************************)
EXTENDS GatewayConfig, TLAPS

-----------------------------------------------------------------------------
(* Types.                                                                  *)

ActorType == [at : Phases, base : File, file : File, listed : SUBSET Tokens]

LEMMA BootedIsAFile == Booted \in File
  BY DEF Booted, File, Tokens

LEMMA WriterTyped ==
    ASSUME NEW phase \in Phases
    PROVE  Writer(phase) \in ActorType
  BY BootedIsAFile DEF Writer, ActorType

\* A step that moves one actor keeps the type of the actors.
LEMMA GoTyped ==
    ASSUME TypeOK, NEW a \in Actors, NEW phase \in Phases, Go(a, phase)
    PROVE  actor' \in [Actors -> ActorType]
  BY DEF TypeOK, Go, ActorType

LEMMA LeaveTyped ==
    ASSUME TypeOK, NEW a \in Actors, NEW phase \in Phases, Leave(a, phase)
    PROVE  actor' \in [Actors -> ActorType]
  BY WriterTyped DEF TypeOK, Leave, ActorType

LEMMA ReadsTyped ==
    ASSUME TypeOK, NEW a \in Actors, NEW phase \in Phases, Reads(a, phase)
    PROVE  actor' \in [Actors -> ActorType]
  BY DEF TypeOK, Reads, ActorType

LEMMA PublishTyped ==
    ASSUME TypeOK, NEW a \in Actors, NEW file \in File, Publish(a, file)
    PROVE  /\ disk' \in File /\ event' \in BOOLEAN
           /\ actor' \in [Actors -> ActorType]
           /\ overtaken' \subseteq Actors /\ missed' \in BOOLEAN /\ unread' \in BOOLEAN
<1>1. /\ disk' \in File /\ event' \in BOOLEAN /\ overtaken' \subseteq Actors
      /\ missed' \in BOOLEAN /\ unread' \in BOOLEAN
  BY DEF TypeOK, Publish
<1>2. actor' \in [Actors -> ActorType]
  <2>1. CASE a \in Outsiders
    BY <2>1, LeaveTyped DEF Publish, Phases
  <2>2. CASE a \notin Outsiders
    BY <2>2 DEF Publish, TypeOK, ActorType, Phases
  <2> QED
    BY <2>1, <2>2
<1> QED
  BY <1>1, <1>2

LEMMA ConsoleTyped ==
    ASSUME TypeOK, NEW w \in Consoles, ConsoleStep(w) \/ ConsoleGivesUp(w)
    PROVE  TypeOK'
<1>0. w \in Actors /\ w \in Settings /\ actor[w] \in ActorType
  BY DEF TypeOK, Actors, Settings, ActorType
<1>1. CASE LockAndLoad(w)
  <2>1. actor' \in [Actors -> ActorType]
    BY <1>0, <1>1, ReadsTyped DEF LockAndLoad, Phases
  <2> QED
    BY <1>1, <2>1 DEF TypeOK, ActorType, LockAndLoad, memory, history
<1>2. CASE ConsoleSaves(w)
  <2> DEFINE file == [actor[w].base EXCEPT !.settings = @ \cup {w}]
  <2>1. file \in File
    BY <1>0 DEF ActorType, File
  <2>2. Publish(w, file) /\ UNCHANGED <<running, stamp, policy, guard, lock, reloader, revoked, stray>>
    BY <1>2 DEF ConsoleSaves, memory
  <2> HIDE DEF file
  <2>3. /\ disk' \in File /\ event' \in BOOLEAN /\ actor' \in [Actors -> ActorType]
        /\ overtaken' \subseteq Actors /\ missed' \in BOOLEAN /\ unread' \in BOOLEAN
    BY <1>0, <2>1, <2>2, PublishTyped
  <2> QED
    BY <2>2, <2>3 DEF TypeOK, ActorType
<1>3. CASE ConsoleStamps(w)
  <2>1. actor' \in [Actors -> ActorType]
    BY <1>0, <1>3, GoTyped DEF ConsoleStamps, Phases
  <2>2. stray' \subseteq Tokens /\ missed' \in BOOLEAN /\ unread' \in BOOLEAN
    BY <1>3 DEF ConsoleStamps, Crosses, TypeOK, File
  <2> QED
    BY <1>3, <2>1, <2>2 DEF TypeOK, ActorType, ConsoleStamps
<1>4. CASE ConsoleSwaps(w)
  <2>1. actor' \in [Actors -> ActorType] /\ actor[w].file \in File
    BY <1>0, <1>4, GoTyped, LeaveTyped DEF ConsoleSwaps, Phases, ActorType
  <2> QED
    BY <1>4, <2>1 DEF TypeOK, ActorType, ConsoleSwaps, Crosses
<1>5. CASE ConsoleApplies(w)
  <2>1. actor' \in [Actors -> ActorType] /\ actor[w].file.settings \subseteq Settings
    BY <1>0, <1>5, GoTyped, LeaveTyped DEF ConsoleApplies, Phases, ActorType, File
  <2> QED
    BY <1>5, <2>1 DEF TypeOK, ActorType, ConsoleApplies, Crosses
<1>6. CASE ConsoleGivesUp(w)
  <2>1. actor' \in [Actors -> ActorType]
    BY <1>0, <1>6, LeaveTyped DEF ConsoleGivesUp, Phases
  <2> QED
    BY <1>6, <2>1 DEF TypeOK, ActorType, ConsoleGivesUp, memory, history
<1> QED
  BY <1>1, <1>2, <1>3, <1>4, <1>5, <1>6 DEF ConsoleStep

LEMMA PairingTyped ==
    ASSUME TypeOK, NEW p \in Pairings, IssueToken(p) \/ PairingStep(p) \/ PairingGivesUp(p)
    PROVE  TypeOK'
<1>0. p \in Actors /\ p \in Tokens /\ actor[p] \in ActorType
  BY DEF TypeOK, Actors, Tokens, ActorType
<1>1. CASE IssueToken(p)
  <2>1. actor' \in [Actors -> ActorType]
    BY <1>0, <1>1, GoTyped DEF IssueToken, Phases
  <2> QED
    BY <1>0, <1>1, <2>1 DEF TypeOK, ActorType, IssueToken, memory, history
<1>2. CASE ListTokens(p)
  <2>1. actor' \in [Actors -> ActorType]
    BY <1>0, <1>2 DEF TypeOK, ListTokens, Phases, ActorType
  <2> QED
    BY <1>2, <2>1 DEF TypeOK, ActorType, ListTokens, memory, history
<1>3. CASE PairingLoads(p)
  <2>1. actor' \in [Actors -> ActorType]
    BY <1>0, <1>3, ReadsTyped DEF PairingLoads, Phases
  <2> QED
    BY <1>3, <2>1 DEF TypeOK, ActorType, PairingLoads, memory, history
<1>4. CASE PairingSaves(p)
  <2> DEFINE file == [actor[p].base EXCEPT !.tokens = actor[p].listed]
  <2>1. file \in File
    BY <1>0 DEF ActorType, File
  <2>2. /\ Publish(p, file)
        /\ UNCHANGED <<running, stamp, policy, guard, lock, reloader, revoked>>
        /\ stray' \subseteq Tokens
    BY <1>4 DEF PairingSaves, memory, TypeOK
  <2> HIDE DEF file
  <2>3. /\ disk' \in File /\ event' \in BOOLEAN /\ actor' \in [Actors -> ActorType]
        /\ overtaken' \subseteq Actors /\ missed' \in BOOLEAN /\ unread' \in BOOLEAN
    BY <1>0, <2>1, <2>2, PublishTyped
  <2> QED
    BY <2>2, <2>3 DEF TypeOK, ActorType
<1>5. CASE PairingSwaps(p)
  <2>1. actor' \in [Actors -> ActorType] /\ actor[p].file \in File
    BY <1>0, <1>5, LeaveTyped DEF PairingSwaps, Phases, ActorType
  <2> QED
    BY <1>5, <2>1 DEF TypeOK, ActorType, PairingSwaps, Crosses
<1>6. CASE PairingGivesUp(p)
  <2>1. actor' \in [Actors -> ActorType]
    BY <1>0, <1>6, LeaveTyped DEF PairingGivesUp, Phases
  <2> QED
    BY <1>6, <2>1 DEF TypeOK, ActorType, PairingGivesUp, memory, history
<1> QED
  BY <1>1, <1>2, <1>3, <1>4, <1>5, <1>6 DEF PairingStep

LEMMA OutsiderTyped ==
    ASSUME TypeOK, NEW o \in Outsiders, OutsiderReads(o) \/ OutsiderSaves(o)
    PROVE  TypeOK'
<1>0. o \in Actors /\ o \in Settings /\ actor[o] \in ActorType /\ Revokes[o] \subseteq Tokens
  BY ConfigAssumption DEF TypeOK, Actors, Settings, ActorType, Tokens
<1>1. CASE OutsiderReads(o)
  <2>1. actor' \in [Actors -> ActorType]
    BY <1>0, <1>1, ReadsTyped DEF OutsiderReads, Phases
  <2> QED
    BY <1>1, <2>1 DEF TypeOK, ActorType, OutsiderReads, memory, history
<1>2. CASE OutsiderSaves(o)
  <2> DEFINE file == [settings |-> actor[o].base.settings \cup {o},
                      tokens |-> actor[o].base.tokens \ Revokes[o]]
  <2>1. file \in File
    BY <1>0 DEF ActorType, File
  <2>2. /\ Publish(o, file)
        /\ UNCHANGED <<running, stamp, policy, guard, lock, reloader, stray>>
        /\ revoked' \subseteq Tokens
    BY <1>0, <1>2 DEF OutsiderSaves, memory, TypeOK
  <2> HIDE DEF file
  <2>3. /\ disk' \in File /\ event' \in BOOLEAN /\ actor' \in [Actors -> ActorType]
        /\ overtaken' \subseteq Actors /\ missed' \in BOOLEAN /\ unread' \in BOOLEAN
    BY <1>0, <2>1, <2>2, PublishTyped
  <2> QED
    BY <2>2, <2>3 DEF TypeOK, ActorType
<1> QED
  BY <1>1, <1>2

LEMMA ReloaderTyped ==
    ASSUME TypeOK, Reload \/ LoadFails
    PROVE  TypeOK'
<1> USE BootedIsAFile DEF TypeOK, ReloaderGo, memory, history
<1>1. CASE Wake
  BY <1>1 DEF Wake
<1>2. CASE ReloaderLoads
  BY <1>2 DEF ReloaderLoads
<1>3. CASE SyncTokens
  <2>1. reloader.file.tokens \subseteq Tokens /\ Pairings \subseteq Tokens
    BY DEF File, Tokens
  <2> QED
    BY <1>3, <2>1 DEF SyncTokens
<1>4. CASE ReloaderSwaps
  BY <1>4 DEF ReloaderSwaps
<1>5. CASE ReloaderStamps
  BY <1>5 DEF ReloaderStamps
<1>6. CASE ReloaderApplies
  BY <1>6 DEF ReloaderApplies, Asleep, File
<1>7. CASE LoadFails
  BY <1>7 DEF LoadFails, Asleep
<1> QED
  BY <1>1, <1>2, <1>3, <1>4, <1>5, <1>6, <1>7 DEF Reload

\* The file and every copy of it keep their type.
THEOREM ConfigTypeCorrect == ConfigSpec => []TypeOK
<1>1. ConfigInit => TypeOK
  <2> SUFFICES ASSUME ConfigInit
               PROVE  TypeOK
    OBVIOUS
  <2>1. actor \in [Actors -> ActorType]
    <3>1. \A phase \in {"idle", "gone"} : Writer(phase) \in ActorType
      BY WriterTyped DEF Phases
    <3> QED
      BY <3>1 DEF ConfigInit
  <2>2. /\ reloader \in [at : {"off", "idle", "seen", "loaded", "synced", "swapped", "stamped"},
                         seen : File, file : File]
        /\ unread \in BOOLEAN
    <3>1. \/ reloader = Asleep /\ unread = FALSE
          \/ reloader = Unwatched /\ unread = TRUE
      BY DEF ConfigInit
    <3>2. /\ Asleep \in [at : {"idle"}, seen : File, file : File]
          /\ Unwatched \in [at : {"off"}, seen : File, file : File]
      BY BootedIsAFile DEF Asleep, Unwatched
    <3>3. unread \in BOOLEAN
      BY <3>1
    <3> QED
      BY <3>1, <3>2, <3>3
  <2> QED
    BY <2>1, <2>2, BootedIsAFile DEF ConfigInit, TypeOK, ActorType, Tokens
<1>2. TypeOK /\ [ConfigNext]_vars => TypeOK'
  <2> SUFFICES ASSUME TypeOK, [ConfigNext]_vars
               PROVE  TypeOK'
    OBVIOUS
  <2>1. CASE UNCHANGED vars
    BY <2>1 DEF vars, memory, history, TypeOK
  <2> QED
    BY <2>1, ConsoleTyped, PairingTyped, OutsiderTyped, ReloaderTyped DEF ConfigNext
<1> QED
  BY <1>1, <1>2, PTL DEF ConfigSpec

-----------------------------------------------------------------------------
(* The console.                                                            *)

Holding == {"loaded", "saved", "stamped", "swapped"}
Published(w) == actor[w].at \in {"saved", "stamped", "swapped", "done"}

\* One console at most is between its lock and its answer.
LockInv ==
    \A v, w \in Consoles :
        actor[v].at \in Holding => ~lock /\ (actor[w].at \in Holding => w = v)

\* What consoles have published is in the file, and in the file that the one at work
\* has read, as long as nobody else wrote over a file it had not read.
WriteInv ==
    overtaken \subseteq Consoles =>
        \A w \in Consoles :
            Published(w) => /\ w \in disk.settings
                            /\ \A v \in Consoles :
                                   actor[v].at = "loaded" => w \in actor[v].base.settings

ConsoleInv == TypeOK /\ LockInv /\ WriteInv

LEMMA ConsoleKeeps ==
    ASSUME ConsoleInv, TypeOK', NEW u \in Consoles, ConsoleStep(u) \/ ConsoleGivesUp(u)
    PROVE  LockInv' /\ WriteInv'
<1> USE DEF ConsoleInv, LockInv, WriteInv, Holding, Published
<1>0. u \in Actors /\ u \notin Outsiders /\ Consoles \subseteq Actors /\ actor \in [Actors -> ActorType]
  BY ConfigAssumption DEF Actors, TypeOK, ActorType
<1>1. CASE LockAndLoad(u)
  BY <1>0, <1>1 DEF LockAndLoad, Reads, ActorType, history
<1>2. CASE ConsoleSaves(u)
  <2> DEFINE file == [actor[u].base EXCEPT !.settings = @ \cup {u}]
  <2>0. /\ actor[u].at = "loaded" /\ UNCHANGED lock /\ Publish(u, file)
        /\ file.settings = actor[u].base.settings \cup {u}
    BY <1>0, <1>2 DEF ConsoleSaves, ActorType, File
  <2> HIDE DEF file
  <2>1. /\ actor[u].at = "loaded" /\ UNCHANGED lock
        /\ disk'.settings = actor[u].base.settings \cup {u}
        /\ actor' = [actor EXCEPT ![u].at = "saved", ![u].file = disk']
        /\ overtaken \subseteq overtaken'
    BY <1>0, <2>0 DEF Publish
  <2> QED
    BY <1>0, <2>1 DEF ActorType
<1>3. CASE ConsoleStamps(u)
  BY <1>0, <1>3 DEF ConsoleStamps, Go, ActorType
<1>4. CASE ConsoleSwaps(u)
  BY <1>0, <1>4 DEF ConsoleSwaps, Go, ActorType
<1>5. CASE ConsoleApplies(u)
  <2>1. /\ actor[u].at = "swapped" /\ lock' = TRUE
        /\ actor' = [actor EXCEPT ![u] = Writer("done")] /\ Writer("done").at = "done"
        /\ UNCHANGED <<disk, overtaken>>
    BY <1>5 DEF ConsoleApplies, Leave, Writer
  <2> QED
    BY <1>0, <2>1 DEF ActorType
<1>6. CASE ConsoleGivesUp(u)
  <2>1. /\ actor[u].at \in Holding /\ lock' = TRUE
        /\ actor' = [actor EXCEPT ![u] = Writer("gone")] /\ Writer("gone").at = "gone"
        /\ UNCHANGED <<disk, overtaken>>
    BY <1>6 DEF ConsoleGivesUp, Leave, Writer, history
  <2> QED
    BY <1>0, <2>1 DEF ActorType
<1> QED
  BY <1>1, <1>2, <1>3, <1>4, <1>5, <1>6 DEF ConsoleStep

\* What other writers do leaves the consoles and their lock alone, and a file that one
\* of them publishes over the one it has read keeps the settings.
LEMMA OthersKeep ==
    ASSUME ConsoleInv, UNCHANGED lock,
           \A w \in Consoles : actor'[w] = actor[w],
           overtaken \subseteq overtaken',
           overtaken' \subseteq Consoles => disk.settings \subseteq disk'.settings
    PROVE  LockInv' /\ WriteInv'
  BY DEF ConsoleInv, LockInv, WriteInv, Published

LEMMA PublishKeeps ==
    ASSUME ConsoleInv, UNCHANGED lock, NEW a \in Actors \ Consoles, NEW file,
           actor[a].base.settings \subseteq file.settings, Publish(a, file)
    PROVE  LockInv' /\ WriteInv'
<1>1. \A w \in Consoles : actor'[w] = actor[w]
  BY DEF Publish, Leave, ConsoleInv, TypeOK, Actors
<1>2. /\ overtaken \subseteq overtaken'
      /\ overtaken' \subseteq Consoles => disk.settings \subseteq disk'.settings
  BY DEF Publish
<1> QED
  BY <1>1, <1>2, OthersKeep

LEMMA PairingKeeps ==
    ASSUME ConsoleInv, NEW p \in Pairings, IssueToken(p) \/ PairingStep(p) \/ PairingGivesUp(p)
    PROVE  LockInv' /\ WriteInv'
<1>0. p \in Actors \ Consoles /\ actor \in [Actors -> ActorType]
  BY ConfigAssumption DEF Actors, Settings, ConsoleInv, TypeOK, ActorType
<1>1. CASE PairingSaves(p)
  <2> DEFINE file == [actor[p].base EXCEPT !.tokens = actor[p].listed]
  <2>1. Publish(p, file) /\ UNCHANGED lock
    BY <1>1 DEF PairingSaves
  <2>2. actor[p].base.settings \subseteq file.settings
    BY <1>0 DEF ActorType, File
  <2> HIDE DEF file
  <2> QED
    BY <1>0, <2>1, <2>2, PublishKeeps
<1>2. CASE IssueToken(p) \/ ListTokens(p) \/ PairingLoads(p) \/ PairingSwaps(p) \/ PairingGivesUp(p)
  <2>1. /\ \A w \in Consoles : actor'[w] = actor[w]
        /\ UNCHANGED <<lock, disk, overtaken>>
    BY <1>0, <1>2 DEF IssueToken, ListTokens, PairingLoads, PairingSwaps, PairingGivesUp,
                      Go, Leave, Reads, history, Actors
  <2> QED
    BY <2>1, OthersKeep
<1> QED
  BY <1>1, <1>2 DEF PairingStep

LEMMA OutsiderKeeps ==
    ASSUME ConsoleInv, NEW o \in Outsiders, OutsiderReads(o) \/ OutsiderSaves(o)
    PROVE  LockInv' /\ WriteInv'
<1>0. o \in Actors \ Consoles /\ actor \in [Actors -> ActorType]
  BY ConfigAssumption DEF Actors, ConsoleInv, TypeOK, ActorType
<1>1. CASE OutsiderReads(o)
  <2>1. /\ \A w \in Consoles : actor'[w] = actor[w]
        /\ UNCHANGED <<lock, disk, overtaken>>
    BY <1>0, <1>1 DEF OutsiderReads, Reads, history, Actors
  <2> QED
    BY <2>1, OthersKeep
<1>2. CASE OutsiderSaves(o)
  <2> DEFINE file == [settings |-> actor[o].base.settings \cup {o},
                      tokens |-> actor[o].base.tokens \ Revokes[o]]
  <2>1. Publish(o, file) /\ UNCHANGED lock /\ actor[o].base.settings \subseteq file.settings
    BY <1>2 DEF OutsiderSaves
  <2> HIDE DEF file
  <2> QED
    BY <1>0, <2>1, PublishKeeps
<1> QED
  BY <1>1, <1>2

LEMMA ReloadKeeps ==
    ASSUME ConsoleInv, Reload \/ LoadFails \/ UNCHANGED vars
    PROVE  LockInv' /\ WriteInv'
<1>1. UNCHANGED <<lock, disk, overtaken, actor>>
  BY DEF Reload, Wake, ReloaderLoads, SyncTokens, ReloaderSwaps, ReloaderStamps,
         ReloaderApplies, LoadFails, vars, history
<1> QED
  BY <1>1, OthersKeep

\* Two writes of the console never clobber each other (CONFIG_WRITE_LOCK): one that
\* was answered is in the file, unless a pairing or an outsider wrote over a file it
\* had not read.
THEOREM ConsoleNeverClobbers == ConfigSpec => []ConsoleWritesCompose
<1>1. ConfigInit => LockInv /\ WriteInv
  BY DEF ConfigInit, LockInv, WriteInv, Holding, Published, Writer, Actors
<1>2. ConsoleInv /\ TypeOK' /\ [ConfigNext]_vars => LockInv' /\ WriteInv'
  BY ConsoleKeeps, PairingKeeps, OutsiderKeeps, ReloadKeeps DEF ConfigNext
<1>3. ConsoleInv => ConsoleWritesCompose
  BY DEF ConsoleInv, WriteInv, Published, ConsoleWritesCompose
<1> QED
  BY <1>1, <1>2, <1>3, ConfigTypeCorrect, PTL DEF ConfigSpec, ConsoleInv

-----------------------------------------------------------------------------
(* The tokens.                                                             *)

\* The file is to list the token, or no longer to.
Told(t) == t \in revoked \/ (t \in Pairings /\ actor[t].at \in {"saved", "done"})

Untold(p) == actor[p].at \in {"idle", "issued", "listed", "loaded"}

Same(t, tokens) == t \in tokens <=> t \in disk.tokens

\* A pairing has its own token, then lists it.
HoldInv ==
    \A p \in Pairings \ stray :
        /\ actor[p].at = "issued" => p \in guard
        /\ actor[p].at \in {"listed", "loaded"} => p \in actor[p].listed

\* The file lists the old tokens that nobody deleted, and those that a pairing wrote.
DiskInv ==
    /\ revoked \subseteq OldTokens
    /\ overtaken = {} =>
         /\ \A t \in OldTokens \ stray : t \in revoked <=> t \notin disk.tokens
         /\ \A p \in Pairings \ stray : /\ actor[p].at \in {"saved", "done"} => p \in disk.tokens
                                        /\ Untold(p) => p \notin disk.tokens

\* A reload is under way only towards a file whose fingerprint is not held; while the
\* file is the one that its fingerprint is of, it has loaded that file.
ReloadInv ==
    /\ reloader.at = "off" => unread
    /\ ~missed => /\ reloader.at \in {"seen", "loaded", "synced", "swapped"} => stamp # disk
                  /\ (reloader.at = "loaded" /\ reloader.seen = disk) => reloader.file = disk

\* The guard follows the file: it agrees on what the file was told, or a tick or a
\* reload will see to it, or the last load failed.
FollowInv ==
    (~missed /\ overtaken = {}) =>
        \A t \in Tokens \ stray : Told(t) =>
            /\ reloader.at = "loaded" => event \/ Same(t, reloader.file.tokens)
            /\ reloader.at \notin {"seen", "loaded"} => unread \/ event \/ Same(t, guard)
            /\ stamp = disk => Same(t, guard)
            /\ (reloader.at \in {"synced", "swapped"} /\ reloader.seen = disk) => Same(t, guard)

TokenInv == HoldInv /\ DiskInv /\ ReloadInv /\ FollowInv

\* A step that tells the file nothing, and changes what is honoured only where the
\* file was told nothing.
LEMMA NothingTold ==
    ASSUME TokenInv, HoldInv', UNCHANGED <<disk, event, stamp, reloader, overtaken, unread, revoked>>,
           stray \subseteq stray', missed => missed',
           \A p \in Pairings : /\ actor'[p].at \in {"saved", "done"} => actor[p].at \in {"saved", "done"}
                               /\ Untold(p)' => Untold(p),
           \A t \in Tokens : Told(t) => (t \in guard' <=> t \in guard)
    PROVE  TokenInv'
<1>1. DiskInv'
  BY DEF TokenInv, DiskInv
<1>2. ReloadInv'
  BY DEF TokenInv, ReloadInv
<1>3. \A t : Told(t)' => Told(t)
  BY DEF Told
<1>4. FollowInv'
  BY <1>3 DEF TokenInv, FollowInv, Same
<1> QED
  BY <1>1, <1>2, <1>4 DEF TokenInv

\* A write that leaves no pairing elsewhere than it was.
LEMMA PairingsRest ==
    ASSUME TokenInv, UNCHANGED <<disk, event, stamp, guard, reloader, overtaken, unread, revoked>>,
           stray \subseteq stray', missed => missed',
           \A p \in Pairings : actor'[p] = actor[p]
    PROVE  TokenInv'
<1>1. HoldInv'
  BY DEF TokenInv, HoldInv
<1>2. \A p \in Pairings : Untold(p)' => Untold(p)
  BY DEF Untold
<1> QED
  BY <1>1, <1>2, NothingTold

\* A file published over the one that was read: the watcher will tell, and a file whose
\* fingerprint is held, or on its way to be, counts as missed.
LEMMA PublishFollows ==
    ASSUME TypeOK, TokenInv, NEW a \in Actors, NEW file, actor[a].at = "loaded", Publish(a, file), DiskInv',
           UNCHANGED <<stamp, guard, reloader>>, stray \subseteq stray'
    PROVE  ReloadInv' /\ FollowInv'
<1>1. /\ disk' = file /\ event' = TRUE
      /\ missed' = (missed \/ (file # disk /\ file = stamp)
                           \/ (Reloading /\ file = reloader.seen))
      /\ unread' = unread
      /\ overtaken' = {} => overtaken = {}
      /\ \A p \in Pairings : p # a => actor'[p] = actor[p]
  BY DEF Publish, Leave, TypeOK, Actors
<1>2. ReloadInv'
  BY <1>1 DEF TokenInv, ReloadInv, Reloading
<1>3. ASSUME ~missed', overtaken' = {}, stamp = file, NEW t \in Tokens \ stray', Told(t)'
      PROVE  Same(t, guard)'
  <2>1. disk' = disk /\ stamp = disk /\ ~missed /\ overtaken = {} /\ t \notin stray
    BY <1>1, <1>3
  <2>2. Told(t)
    <3>1. CASE t \in OldTokens
      <4>1. t \in revoked'
        BY <1>3, <3>1, ConfigAssumption DEF Told
      <4> QED
        BY <1>3, <2>1, <3>1, <4>1 DEF TokenInv, DiskInv, Told
    <3>2. CASE t \in Pairings
      <4>1. actor'[t].at \in {"saved", "done"} /\ t \in disk'.tokens
        BY <1>3, <3>2, ConfigAssumption DEF Told, DiskInv
      <4>2. ~Untold(t)
        BY <2>1, <3>2, <4>1 DEF TokenInv, DiskInv
      <4>3. t # a
        BY <4>2 DEF Untold
      <4> QED
        BY <1>1, <3>2, <4>1, <4>3 DEF Told
    <3> QED
      BY <3>1, <3>2 DEF Tokens
  <2> QED
    BY <2>1, <2>2, <1>3 DEF TokenInv, FollowInv, Same
<1>4. FollowInv'
  <2>1. UNCHANGED <<stamp, guard, reloader>> /\ event' /\ disk' = file
    BY <1>1
  <2>2. ASSUME ~missed', reloader.at \in {"synced", "swapped"}
        PROVE  file # reloader.seen
    BY <1>1, <2>2 DEF Reloading
  <2> QED
    BY <1>3, <2>1, <2>2 DEF FollowInv
<1> QED
  BY <1>2, <1>4

LEMMA ConsoleTokens ==
    ASSUME TypeOK, TokenInv, NEW w \in Consoles, ConsoleStep(w) \/ ConsoleGivesUp(w)
    PROVE  TokenInv'
<1>0. /\ w \in Actors /\ w \notin Outsiders /\ w \notin Pairings
      /\ actor \in [Actors -> ActorType] /\ Pairings \subseteq Actors
  BY ConfigAssumption DEF Actors, Settings, TypeOK, ActorType
<1>1. CASE ConsoleSaves(w)
  <2> DEFINE file == [actor[w].base EXCEPT !.settings = @ \cup {w}]
  <2>1. /\ Publish(w, file) /\ actor[w].at = "loaded" /\ file.tokens = actor[w].base.tokens
        /\ UNCHANGED <<stamp, guard, reloader, revoked, stray>>
    BY <1>0, <1>1 DEF ConsoleSaves, memory, ActorType, File
  <2> HIDE DEF file
  <2>2. /\ disk' = file
        /\ overtaken' = {} => overtaken = {} /\ disk = actor[w].base
        /\ \A p \in Pairings : actor'[p] = actor[p]
    BY <1>0, <2>1 DEF Publish
  <2>3. HoldInv'
    BY <2>1, <2>2 DEF TokenInv, HoldInv
  <2>4. DiskInv'
    BY <2>1, <2>2 DEF TokenInv, DiskInv, Untold
  <2> QED
    BY <1>0, <2>1, <2>3, <2>4, PublishFollows DEF TokenInv
<1>2. CASE ConsoleStamps(w)
  <2>1. /\ UNCHANGED <<disk, event, guard, reloader, overtaken, unread, revoked>> /\ stamp' = disk
        /\ stray' = stray \cup (disk.tokens \ guard) \cup ((guard \cap revoked) \ disk.tokens)
        /\ missed => missed'
        /\ reloader.at \notin {"off", "idle"} => missed'
        /\ \A p \in Pairings : actor'[p] = actor[p]
    BY <1>0, <1>2 DEF ConsoleStamps, Crosses, Reloading, Go
  <2>2. HoldInv' /\ DiskInv'
    BY <2>1 DEF TokenInv, HoldInv, DiskInv, Untold
  <2>3. ReloadInv'
    BY <2>1 DEF TokenInv, ReloadInv
  <2>4. ASSUME NEW t \in Tokens \ stray', Told(t)', overtaken = {}
        PROVE  Told(t) /\ Same(t, guard) /\ Same(t, guard)'
    <3>1. Told(t)
      BY <2>1, <2>4 DEF Told
    <3>2. \/ t \in revoked /\ t \in OldTokens /\ t \notin disk.tokens
          \/ t \in disk.tokens
      BY <2>1, <2>4, <3>1 DEF Told, TokenInv, DiskInv
    <3>3. t \in guard <=> t \in disk.tokens
      BY <2>1, <2>4, <3>2
    <3> QED
      BY <2>1, <3>1, <3>3 DEF Same
  <2>5. FollowInv'
    BY <2>1, <2>4 DEF TokenInv, FollowInv, Same
  <2> QED
    BY <2>2, <2>3, <2>5 DEF TokenInv
<1>3. CASE LockAndLoad(w) \/ ConsoleSwaps(w) \/ ConsoleApplies(w) \/ ConsoleGivesUp(w)
  <2>1. /\ UNCHANGED <<disk, event, stamp, guard, reloader, overtaken, unread, revoked, stray>>
        /\ missed => missed'
    <3>1. CASE LockAndLoad(w) \/ ConsoleGivesUp(w)
      BY <3>1 DEF LockAndLoad, ConsoleGivesUp, memory, history
    <3>2. CASE ConsoleSwaps(w) \/ ConsoleApplies(w)
      BY <3>2 DEF ConsoleSwaps, ConsoleApplies, Crosses
    <3> QED
      BY <1>3, <3>1, <3>2
  <2>2. \A p \in Pairings : actor'[p] = actor[p]
    BY <1>0, <1>3 DEF LockAndLoad, ConsoleSwaps, ConsoleApplies, ConsoleGivesUp, Go, Leave, Reads
  <2> QED
    BY <2>1, <2>2, PairingsRest
<1> QED
  BY <1>1, <1>2, <1>3 DEF ConsoleStep

LEMMA PairingTokens ==
    ASSUME TypeOK, TokenInv, NEW p \in Pairings, IssueToken(p) \/ PairingStep(p) \/ PairingGivesUp(p)
    PROVE  TokenInv'
<1>0. /\ p \in Actors /\ p \notin Outsiders /\ p \notin OldTokens /\ p \in Tokens
      /\ actor \in [Actors -> ActorType] /\ Pairings \subseteq Actors
  BY ConfigAssumption DEF Actors, Settings, TypeOK, ActorType, Tokens
<1>1. CASE PairingSaves(p)
  <2> DEFINE file == [actor[p].base EXCEPT !.tokens = actor[p].listed]
  <2>1. /\ Publish(p, file) /\ actor[p].at = "loaded" /\ file.tokens = actor[p].listed
        /\ UNCHANGED <<stamp, guard, reloader, revoked>>
        /\ stray' = stray \cup {t \in Tokens \ {p} : (t \in actor[p].listed) # (t \in actor[p].base.tokens)}
    BY <1>0, <1>1 DEF PairingSaves, memory, ActorType, File
  <2> HIDE DEF file
  <2>2. /\ disk' = file
        /\ overtaken' = {} => overtaken = {} /\ disk = actor[p].base
        /\ \A q \in Pairings : q # p => actor'[q] = actor[q]
        /\ actor'[p].at = "saved"
    BY <1>0, <2>1 DEF Publish, ActorType
  <2>3. HoldInv'
    BY <2>1, <2>2 DEF TokenInv, HoldInv
  <2>4. DiskInv'
    <3>1. revoked' \subseteq OldTokens
      BY <2>1 DEF TokenInv, DiskInv
    <3>2. ASSUME overtaken' = {}, NEW t \in Tokens \ stray', t # p
          PROVE  t \in disk'.tokens <=> t \in disk.tokens
      BY <2>1, <2>2, <3>2
    <3>3. p \notin stray => p \in disk'.tokens
      BY <2>1, <2>2 DEF TokenInv, HoldInv
    <3>4. ASSUME overtaken' = {}, NEW t \in OldTokens \ stray'
          PROVE  t \in revoked' <=> t \notin disk'.tokens
      BY <1>0, <2>1, <2>2, <3>2, <3>4 DEF TokenInv, DiskInv, Tokens
    <3>5. ASSUME overtaken' = {}, NEW q \in Pairings \ stray'
          PROVE  /\ actor'[q].at \in {"saved", "done"} => q \in disk'.tokens
                 /\ Untold(q)' => q \notin disk'.tokens
      BY <2>1, <2>2, <3>2, <3>3, <3>5 DEF TokenInv, DiskInv, Untold, Tokens
    <3> QED
      BY <3>1, <3>4, <3>5 DEF DiskInv
  <2> QED
    BY <1>0, <2>1, <2>3, <2>4, PublishFollows DEF TokenInv
<1>2. CASE IssueToken(p) \/ ListTokens(p) \/ PairingLoads(p) \/ PairingSwaps(p) \/ PairingGivesUp(p)
  <2>1. /\ UNCHANGED <<disk, event, stamp, reloader, overtaken, unread, revoked, stray>>
        /\ missed => missed'
        /\ \A q \in Pairings : q # p => actor'[q] = actor[q]
    <3>1. CASE IssueToken(p) \/ ListTokens(p) \/ PairingLoads(p) \/ PairingGivesUp(p)
      BY <1>0, <3>1 DEF IssueToken, ListTokens, PairingLoads, PairingGivesUp,
                        memory, history, Go, Leave, Reads
    <3>2. CASE PairingSwaps(p)
      BY <1>0, <3>2 DEF PairingSwaps, Crosses, Leave
    <3> QED
      BY <1>2, <3>1, <3>2
  <2>2. /\ actor'[p].at \in {"saved", "done"} => actor[p].at \in {"saved", "done"}
        /\ Untold(p)' => Untold(p)
        /\ actor'[p].at = "issued" => p \in guard'
        /\ actor'[p].at \in {"listed", "loaded"} =>
              \/ actor[p].at = "issued" /\ actor'[p].listed = guard
              \/ actor[p].at = "listed" /\ actor'[p].listed = actor[p].listed
    <3>1. CASE IssueToken(p)
      BY <1>0, <3>1 DEF IssueToken, Go, Untold, ActorType
    <3>2. CASE ListTokens(p)
      BY <1>0, <3>2 DEF ListTokens, Untold, ActorType
    <3>3. CASE PairingLoads(p)
      BY <1>0, <3>3 DEF PairingLoads, Reads, Untold, ActorType
    <3>4. CASE PairingSwaps(p)
      BY <1>0, <3>4 DEF PairingSwaps, Leave, Writer, Untold
    <3>5. CASE PairingGivesUp(p)
      BY <1>0, <3>5 DEF PairingGivesUp, Leave, Writer, Untold
    <3> QED
      BY <1>2, <3>1, <3>2, <3>3, <3>4, <3>5
  <2>3. guard \subseteq guard' /\ \A t \in Tokens : Told(t) => (t \in guard' <=> t \in guard)
    <3>1. CASE IssueToken(p)
      <4>1. ~Told(p)
        BY <1>0, <3>1 DEF IssueToken, Told, TokenInv, DiskInv
      <4> QED
        BY <3>1, <4>1 DEF IssueToken
    <3>2. CASE ~IssueToken(p)
      BY <1>2, <3>2 DEF ListTokens, PairingLoads, PairingSwaps, PairingGivesUp
    <3> QED
      BY <3>1, <3>2
  <2>4. HoldInv'
    BY <2>1, <2>2, <2>3 DEF TokenInv, HoldInv
  <2>5. \A q \in Pairings : /\ actor'[q].at \in {"saved", "done"} => actor[q].at \in {"saved", "done"}
                            /\ Untold(q)' => Untold(q)
    BY <2>1, <2>2 DEF Untold
  <2> QED
    BY <2>1, <2>3, <2>4, <2>5, NothingTold
<1> QED
  BY <1>1, <1>2 DEF PairingStep

LEMMA OutsiderTokens ==
    ASSUME TypeOK, TokenInv, NEW o \in Outsiders, OutsiderReads(o) \/ OutsiderSaves(o)
    PROVE  TokenInv'
<1>0. /\ o \in Actors /\ o \notin Pairings /\ Revokes[o] \subseteq OldTokens
      /\ actor \in [Actors -> ActorType] /\ OldTokens \cap Pairings = {}
  BY ConfigAssumption DEF Actors, Settings, TypeOK, ActorType
<1>1. CASE OutsiderReads(o)
  <2>1. /\ UNCHANGED <<disk, event, stamp, guard, reloader, history>>
        /\ \A p \in Pairings : actor'[p] = actor[p]
    BY <1>0, <1>1 DEF OutsiderReads, Reads, memory, Actors
  <2> QED
    BY <2>1, PairingsRest DEF history
<1>2. CASE OutsiderSaves(o)
  <2> DEFINE file == [settings |-> actor[o].base.settings \cup {o},
                      tokens |-> actor[o].base.tokens \ Revokes[o]]
  <2>1. /\ Publish(o, file) /\ actor[o].at = "loaded"
        /\ file.tokens = actor[o].base.tokens \ Revokes[o]
        /\ UNCHANGED <<stamp, guard, reloader, stray>> /\ revoked' = revoked \cup Revokes[o]
    BY <1>2 DEF OutsiderSaves, memory
  <2> HIDE DEF file
  <2>2. /\ disk' = file
        /\ overtaken' = {} => overtaken = {} /\ disk = actor[o].base
        /\ \A p \in Pairings : actor'[p] = actor[p]
    BY <1>0, <2>1 DEF Publish, Leave, Actors
  <2>3. HoldInv'
    BY <2>1, <2>2 DEF TokenInv, HoldInv
  <2>4. DiskInv'
    BY <1>0, <2>1, <2>2 DEF TokenInv, DiskInv, Untold
  <2> QED
    BY <1>0, <2>1, <2>3, <2>4, PublishFollows DEF TokenInv
<1> QED
  BY <1>1, <1>2

LEMMA ReloadTokens ==
    ASSUME TypeOK, TokenInv, Reload \/ LoadFails
    PROVE  TokenInv'
<1>1. /\ UNCHANGED <<disk, actor, overtaken, revoked>> /\ stray \subseteq stray'
  BY DEF Reload, Wake, ReloaderLoads, SyncTokens, ReloaderSwaps, ReloaderStamps,
         ReloaderApplies, LoadFails, history
<1>2. /\ \A t : Told(t)' <=> Told(t)
      /\ DiskInv'
  BY <1>1 DEF TokenInv, DiskInv, Untold, Told
<1>3. HoldInv'
  <2>1. CASE SyncTokens
    BY <1>1, <2>1 DEF SyncTokens, TokenInv, HoldInv
  <2>2. CASE ~SyncTokens
    <3>1. guard' = guard
      BY <2>2 DEF Reload, Wake, ReloaderLoads, ReloaderSwaps, ReloaderStamps,
                  ReloaderApplies, LoadFails
    <3> QED
      BY <1>1, <3>1 DEF TokenInv, HoldInv
  <2> QED
    BY <2>1, <2>2
<1>4. ReloadInv' /\ FollowInv'
  <2>0. reloader \in [at : {"off", "idle", "seen", "loaded", "synced", "swapped", "stamped"},
                      seen : File, file : File]
    BY DEF TypeOK
  <2>1. CASE Wake
    <3>1. CASE stamp = disk
      <4>1. UNCHANGED <<stamp, guard, reloader, missed, unread, stray>> /\ reloader.at = "idle"
        BY <2>1, <3>1 DEF Wake, memory
      <4> QED
        BY <1>1, <1>2, <3>1, <4>1 DEF TokenInv, ReloadInv, FollowInv, Same
    <3>2. CASE stamp # disk
      <4>1. UNCHANGED <<stamp, guard>> /\ reloader'.at = "seen"
        BY <2>0, <2>1, <3>2 DEF Wake, memory
      <4> QED
        BY <1>1, <3>2, <4>1 DEF ReloadInv, FollowInv
    <3> QED
      BY <3>1, <3>2
  <2>2. CASE ReloaderLoads
    <3>1. /\ UNCHANGED <<stamp, guard, event, missed, stray>> /\ reloader.at = "seen" /\ ~unread'
          /\ reloader'.at = "loaded" /\ reloader'.file = disk /\ reloader'.seen = reloader.seen
      BY <2>0, <2>2 DEF ReloaderLoads, memory, history
    <3> QED
      BY <1>1, <1>2, <3>1 DEF TokenInv, ReloadInv, FollowInv, Same
  <2>3. CASE SyncTokens
    <3>1. /\ UNCHANGED <<stamp, event, missed, unread>> /\ reloader.at = "loaded"
          /\ guard' = reloader.file.tokens
          /\ reloader'.at = "synced" /\ reloader'.seen = reloader.seen
      BY <2>0, <2>3 DEF SyncTokens, memory, ReloaderGo
    <3> QED
      BY <1>1, <1>2, <3>1 DEF TokenInv, ReloadInv, FollowInv, Same
  <2>4. CASE ReloaderSwaps
    <3>1. /\ UNCHANGED <<stamp, guard, event, missed, unread, stray>> /\ reloader.at = "synced"
          /\ reloader'.at = "swapped" /\ reloader'.seen = reloader.seen
      BY <2>0, <2>4 DEF ReloaderSwaps, ReloaderGo, history
    <3> QED
      BY <1>1, <1>2, <3>1 DEF TokenInv, ReloadInv, FollowInv, Same
  <2>5. CASE ReloaderStamps
    <3>1. /\ UNCHANGED <<guard, event, missed, unread, stray>> /\ reloader.at = "swapped"
          /\ stamp' = reloader.seen /\ reloader'.at = "stamped"
      BY <2>0, <2>5 DEF ReloaderStamps, ReloaderGo, history
    <3> QED
      BY <1>1, <1>2, <3>1 DEF TokenInv, ReloadInv, FollowInv, Same
  <2>6. CASE ReloaderApplies
    <3>1. /\ UNCHANGED <<stamp, guard, event, missed, unread, stray>> /\ reloader.at = "stamped"
          /\ reloader'.at = "idle"
      BY <2>0, <2>6 DEF ReloaderApplies, Asleep, history
    <3> QED
      BY <1>1, <1>2, <3>1 DEF TokenInv, ReloadInv, FollowInv, Same
  <2>7. CASE LoadFails
    <3>1. /\ UNCHANGED <<stamp, guard, event, missed, stray>> /\ unread' /\ reloader'.at = "idle"
          /\ reloader.at = "seen"
      BY <2>0, <2>7 DEF LoadFails, memory, Asleep
    <3> QED
      BY <1>1, <1>2, <3>1 DEF TokenInv, ReloadInv, FollowInv, Same
  <2> QED
    BY <2>1, <2>2, <2>3, <2>4, <2>5, <2>6, <2>7 DEF Reload
<1> QED
  BY <1>2, <1>3, <1>4 DEF TokenInv

LEMMA TokensInit == ConfigInit => TokenInv
<1> SUFFICES ASSUME ConfigInit
             PROVE  TokenInv
  OBVIOUS
<1>1. /\ disk = Booted /\ stamp = Booted /\ guard = OldTokens /\ revoked = {} /\ stray = {}
      /\ Booted.tokens = OldTokens
      /\ reloader.at = "idle" \/ (reloader.at = "off" /\ unread)
      /\ \A p \in Pairings : actor[p].at \in {"idle", "gone"}
  BY DEF ConfigInit, Booted, Asleep, Unwatched, Writer, Actors
<1> QED
  BY <1>1, ConfigAssumption DEF TokenInv, HoldInv, DiskInv, Untold, ReloadInv, FollowInv, Told, Same

LEMMA TokensNext == TypeOK /\ TokenInv /\ [ConfigNext]_vars => TokenInv'
<1> SUFFICES ASSUME TypeOK, TokenInv, [ConfigNext]_vars
             PROVE  TokenInv'
  OBVIOUS
<1>1. CASE UNCHANGED vars
  BY <1>1, PairingsRest DEF vars, memory, history
<1> QED
  BY <1>1, ConsoleTokens, PairingTokens, OutsiderTokens, ReloadTokens DEF ConfigNext

\* A token whose client was told that it is persisted is in the file once all is quiet
\* (persist_pairing_tokens), unless writes or a reload crossed its pairing, and honoured
\* (sync_from_config), unless moreover the last load failed or the memory was crossed.
THEOREM PairedTokensStay == ConfigSpec => []PairedTokensLast
<1>1. TokenInv => PairedTokensLast
  BY DEF TokenInv, DiskInv, ReloadInv, FollowInv, Told, Same, PairedTokensLast, Quiet, Tokens
<1> QED
  BY <1>1, TokensInit, TokensNext, ConfigTypeCorrect, PTL DEF ConfigSpec

\* A token deleted from the file is honoured no more once all is quiet
\* (sync_from_config), unless the last load failed or there is no watcher, a pairing
\* listed the token, a writer held it from before, or the stamp of a console write hid
\* the deletion.
THEOREM RevokedTokensGo == ConfigSpec => []RevocationLasts
<1>1. TokenInv => RevocationLasts
  BY DEF TokenInv, DiskInv, ReloadInv, FollowInv, Told, Same, RevocationLasts, Quiet, Tokens
<1> QED
  BY <1>1, TokensInit, TokensNext, ConfigTypeCorrect, PTL DEF ConfigSpec
=============================================================================
