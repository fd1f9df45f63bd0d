--------------------------- MODULE GatewayConfig ----------------------------
(***************************************************************************)
(* config.toml and the copies the gateway keeps of it: the running Config, *)
(* the fingerprint that says which file it came from, the paired tokens    *)
(* the PairingGuard honours and the autonomy the policies enforce.         *)
(*                                                                         *)
(* Four kinds of actors write: handlers of the console (gateway/           *)
(* config_api.rs), one at a time behind CONFIG_WRITE_LOCK; pairings        *)
(* (gateway/mod.rs persist_pairing_tokens), which do not take the lock;    *)
(* outsiders, an editor, the TUI or a /claim of Telegram, which only see   *)
(* the file; and the reloader, which follows the file into memory, unless  *)
(* its watcher could not be set up, and keeps what it has when a load      *)
(* fails.  Every write is a read, some awaits, and a publish of the whole  *)
(* file.                                                                   *)
(*                                                                         *)
(* A file is what it says: the settings somebody made, one per writer, and *)
(* the tokens it lists.  Its fingerprint is the file itself.               *)
(***************************************************************************)
EXTENDS FiniteSets

CONSTANTS
    Consoles,   \* writes of the console
    Pairings,   \* pairings, and the token each of them issues
    Outsiders,  \* writes that do not come from the gateway
    OldTokens,  \* tokens paired before
    Revokes,    \* [Outsiders -> SUBSET OldTokens]: the tokens each one deletes
    Casts       \* a bound: the sets of writers that come at all

Tokens == OldTokens \cup Pairings
Settings == Consoles \cup Outsiders

ASSUME ConfigAssumption ==
    /\ Revokes \in [Outsiders -> SUBSET OldTokens]
    /\ Consoles \cap Outsiders = {} /\ Pairings \cap Settings = {}
    /\ OldTokens \cap Pairings = {}
    /\ Casts \subseteq SUBSET (Consoles \cup Pairings \cup Outsiders)

VARIABLES
    disk,      \* the file
    event,     \* the watcher has a tick for the reloader
    running,   \* the shared Config
    stamp,     \* config_fingerprint
    guard,     \* the tokens of the PairingGuard
    policy,    \* the settings the autonomy in force came from
    lock,      \* CONFIG_WRITE_LOCK is free
    actor,     \* where each writer is and the file it holds
    reloader,  \* where the reloader is, its fingerprint and its file
    overtaken, \* history: the writers that published over a file they had not read
    missed,    \* history: a writer set memory from a file that had been replaced or while
               \* a reload was at work, or put back a file whose fingerprint is held
    unread,    \* history: the last load of the reloader failed, or it has no watcher
    revoked,   \* history: tokens an outsider deleted
    stray      \* history: tokens that a pairing listed otherwise than the file it had
               \* read, a reload took before they were listed, or a stamp hid a change of

memory == <<running, stamp, policy>>
history == <<overtaken, missed, unread, revoked, stray>>
vars == <<disk, event, memory, guard, lock, actor, reloader, history>>

Actors == Consoles \cup Pairings \cup Outsiders
File == [settings : SUBSET Settings, tokens : SUBSET Tokens]
Phases == {"idle", "issued", "listed", "loaded", "saved", "stamped", "swapped", "done",
           "unpersisted", "gone"}

Booted == [settings |-> {}, tokens |-> OldTokens]
Asleep == [at |-> "idle", seen |-> Booted, file |-> Booted]
Unwatched == [at |-> "off", seen |-> Booted, file |-> Booted]
Reloading == reloader.at \notin {"idle", "off"}
Writer(phase) == [at |-> phase, base |-> Booted, file |-> Booted, listed |-> {}]

Go(a, phase) == actor' = [actor EXCEPT ![a].at = phase]
Leave(a, phase) == actor' = [actor EXCEPT ![a] = Writer(phase)]
Reads(a, phase) == actor' = [actor EXCEPT ![a].at = phase, ![a].base = disk, ![a].file = disk]

-----------------------------------------------------------------------------
ConfigInit ==
    /\ disk = Booted /\ running = Booted /\ stamp = Booted
    /\ event = FALSE /\ lock = TRUE
    /\ guard = OldTokens /\ policy = {}
    /\ \E cast \in Casts : actor = [a \in Actors |-> Writer(IF a \in cast THEN "idle" ELSE "gone")]
    /\ \/ reloader = Asleep /\ unread = FALSE
       \/ reloader = Unwatched /\ unread = TRUE
    /\ overtaken = {} /\ missed = FALSE /\ revoked = {} /\ stray = {}

\* Config::save: a temporary file renamed over the old one, and the watcher's event.
Publish(a, file) ==
    /\ disk' = file /\ event' = TRUE
    /\ IF a \in Outsiders THEN Leave(a, "done")
       ELSE actor' = [actor EXCEPT ![a].at = "saved", ![a].file = file]
    /\ overtaken' = IF disk # actor[a].base THEN overtaken \cup {a} ELSE overtaken
    /\ missed' = (missed \/ (file # disk /\ file = stamp)
                       \/ (Reloading /\ file = reloader.seen))
    /\ UNCHANGED unread

Crosses(file) == missed' = (missed \/ disk # file \/ Reloading) /\ UNCHANGED unread

-----------------------------------------------------------------------------
(* A write of the console: lock_and_load, one field, persist_and_swap.     *)

\* Mutant: the file is read without the lock.
LoadUnlocked(w) ==
    /\ actor[w].at = "idle"
    /\ Reads(w, "loaded")
    /\ UNCHANGED <<disk, event, lock, memory, guard, reloader, history>>

LockAndLoad(w) ==
    /\ actor[w].at = "idle" /\ lock
    /\ lock' = FALSE
    /\ Reads(w, "loaded")
    /\ UNCHANGED <<disk, event, memory, guard, reloader, history>>

ConsoleSaves(w) ==
    /\ actor[w].at = "loaded"
    /\ Publish(w, [actor[w].base EXCEPT !.settings = @ \cup {w}])
    /\ UNCHANGED <<memory, guard, lock, reloader, revoked, stray>>

\* The fingerprint is that of the file as it is by now.
ConsoleStamps(w) ==
    /\ actor[w].at = "saved"
    /\ stamp' = disk
    /\ Crosses(actor[w].file)
    /\ stray' = stray \cup (disk.tokens \ guard) \cup ((guard \cap revoked) \ disk.tokens)
    /\ Go(w, "stamped")
    /\ UNCHANGED <<disk, event, running, policy, guard, lock, reloader, overtaken, revoked>>

ConsoleSwaps(w) ==
    /\ actor[w].at = "stamped"
    /\ running' = actor[w].file
    /\ Crosses(actor[w].file)
    /\ Go(w, "swapped")
    /\ UNCHANGED <<disk, event, stamp, policy, guard, lock, reloader, overtaken, revoked, stray>>

ConsoleApplies(w) ==
    /\ actor[w].at = "swapped"
    /\ policy' = actor[w].file.settings
    /\ Crosses(actor[w].file)
    /\ Leave(w, "done")
    /\ lock' = TRUE
    /\ UNCHANGED <<disk, event, running, stamp, guard, reloader, overtaken, revoked, stray>>

\* The handler's future is dropped, or its save fails, before the file is
\* published or after it.
ConsoleGivesUp(w) ==
    /\ actor[w].at \in {"loaded", "saved"}
    /\ Leave(w, "gone")
    /\ lock' = TRUE
    /\ UNCHANGED <<disk, event, memory, guard, reloader, history>>

-----------------------------------------------------------------------------
(* A pairing: try_pair or issue_token, then persist_pairing_tokens.        *)

IssueToken(p) ==
    /\ actor[p].at = "idle"
    /\ guard' = guard \cup {p}
    /\ Go(p, "issued")
    /\ UNCHANGED <<disk, event, memory, lock, reloader, history>>

ListTokens(p) ==
    /\ actor[p].at = "issued"
    /\ actor' = [actor EXCEPT ![p].at = "listed", ![p].listed = guard]
    /\ UNCHANGED <<disk, event, memory, guard, lock, reloader, history>>

PairingLoads(p) ==
    /\ actor[p].at = "listed"
    /\ Reads(p, "loaded")
    /\ UNCHANGED <<disk, event, memory, guard, lock, reloader, history>>

\* Mutant: the tokens of the file stay as they are.
PairingSavesOldTokens(p) ==
    /\ actor[p].at = "loaded"
    /\ Publish(p, actor[p].base)
    /\ UNCHANGED <<memory, guard, lock, reloader, revoked, stray>>

PairingSaves(p) ==
    /\ actor[p].at = "loaded"
    /\ Publish(p, [actor[p].base EXCEPT !.tokens = actor[p].listed])
    /\ stray' = stray \cup {t \in Tokens \ {p} : (t \in actor[p].listed) # (t \in actor[p].base.tokens)}
    /\ UNCHANGED <<memory, guard, lock, reloader, revoked>>

PairingSwaps(p) ==
    /\ actor[p].at = "saved"
    /\ running' = actor[p].file
    /\ Crosses(actor[p].file)
    /\ Leave(p, "done")
    /\ UNCHANGED <<disk, event, stamp, policy, guard, lock, reloader, overtaken, revoked, stray>>

\* The client is told "persisted": false, or has gone.
PairingGivesUp(p) ==
    /\ \/ actor[p].at \in {"listed", "loaded"} /\ Leave(p, "unpersisted")
       \/ actor[p].at \in {"issued", "listed", "loaded", "saved"} /\ Leave(p, "gone")
    /\ UNCHANGED <<disk, event, memory, guard, lock, reloader, history>>

-----------------------------------------------------------------------------
(* An outsider.                                                            *)

OutsiderReads(o) ==
    /\ actor[o].at = "idle"
    /\ Reads(o, "loaded")
    /\ UNCHANGED <<disk, event, memory, guard, lock, reloader, history>>

OutsiderSaves(o) ==
    /\ actor[o].at = "loaded"
    /\ Publish(o, [settings |-> actor[o].base.settings \cup {o},
                   tokens |-> actor[o].base.tokens \ Revokes[o]])
    /\ revoked' = revoked \cup Revokes[o]
    /\ UNCHANGED <<memory, guard, lock, reloader, stray>>

-----------------------------------------------------------------------------
(* spawn_config_reloader.                                                  *)

ReloaderGo(phase) == reloader' = [reloader EXCEPT !.at = phase]

\* A tick: nothing to do if the file is the one the gateway holds.
Wake ==
    /\ reloader.at = "idle" /\ event
    /\ event' = FALSE
    /\ IF stamp = disk
       THEN UNCHANGED <<reloader, missed>>
       ELSE /\ reloader' = [reloader EXCEPT !.at = "seen", !.seen = disk]
            /\ missed' = FALSE
    /\ UNCHANGED <<disk, memory, guard, lock, actor, overtaken, unread, revoked, stray>>

ReloaderLoads ==
    /\ reloader.at = "seen"
    /\ reloader' = [reloader EXCEPT !.at = "loaded", !.file = disk]
    /\ unread' = FALSE
    /\ UNCHANGED <<disk, event, memory, guard, lock, actor, overtaken, missed, revoked, stray>>

\* The file cannot be read, parsed or decrypted: the tick is used up, everything stays
\* as it is, the fingerprint too, and nothing tries again before the file changes.
LoadFails ==
    /\ reloader.at = "seen"
    /\ reloader' = Asleep
    /\ unread' = TRUE
    /\ UNCHANGED <<disk, event, memory, guard, lock, actor, overtaken, missed, revoked, stray>>

\* Mutant: tokens are added, none is dropped.
SyncAdds ==
    /\ reloader.at = "loaded"
    /\ guard' = guard \cup reloader.file.tokens
    /\ ReloaderGo("synced")
    /\ UNCHANGED <<disk, event, memory, lock, actor, history>>

\* PairingGuard::sync_from_config: the file is the authority.
SyncTokens ==
    /\ reloader.at = "loaded"
    /\ guard' = reloader.file.tokens
    /\ stray' = stray \cup {p \in Pairings : p \in guard /\ actor[p].at = "issued"}
    /\ ReloaderGo("synced")
    /\ UNCHANGED <<disk, event, memory, lock, actor, overtaken, missed, unread, revoked>>

\* apply_reloaded_config.
ReloaderSwaps ==
    /\ reloader.at = "synced"
    /\ running' = reloader.file
    /\ ReloaderGo("swapped")
    /\ UNCHANGED <<disk, event, stamp, policy, guard, lock, actor, history>>

\* Mutant: the fingerprint is that of the file by now, not of the one that was loaded.
StampsLatest ==
    /\ reloader.at = "swapped"
    /\ stamp' = disk
    /\ ReloaderGo("stamped")
    /\ UNCHANGED <<disk, event, running, policy, guard, lock, actor, history>>

ReloaderStamps ==
    /\ reloader.at = "swapped"
    /\ stamp' = reloader.seen
    /\ ReloaderGo("stamped")
    /\ UNCHANGED <<disk, event, running, policy, guard, lock, actor, history>>

ReloaderApplies ==
    /\ reloader.at = "stamped"
    /\ policy' = reloader.file.settings
    /\ reloader' = Asleep
    /\ UNCHANGED <<disk, event, running, stamp, guard, lock, actor, history>>

-----------------------------------------------------------------------------
ConsoleStep(w) ==
    \/ LockAndLoad(w) \/ ConsoleSaves(w) \/ ConsoleStamps(w) \/ ConsoleSwaps(w) \/ ConsoleApplies(w)

PairingStep(p) == ListTokens(p) \/ PairingLoads(p) \/ PairingSaves(p) \/ PairingSwaps(p)

Reload ==
    \/ Wake \/ ReloaderLoads \/ SyncTokens \/ ReloaderSwaps \/ ReloaderStamps \/ ReloaderApplies

ConfigNext ==
    \/ \E w \in Consoles : ConsoleStep(w) \/ ConsoleGivesUp(w)
    \/ \E p \in Pairings : IssueToken(p) \/ PairingStep(p) \/ PairingGivesUp(p)
    \/ \E o \in Outsiders : OutsiderReads(o) \/ OutsiderSaves(o)
    \/ Reload \/ LoadFails

ConfigSpec == ConfigInit /\ [][ConfigNext]_vars

\* The gateway's tasks are polled; outsiders and clients owe nothing, and no load
\* has to succeed: LoadFails may always come instead.
FairConfig ==
    /\ ConfigSpec
    /\ WF_vars(Reload)
    /\ \A w \in Consoles : WF_vars(ConsoleStep(w))
    /\ \A p \in Pairings : WF_vars(PairingStep(p))

-----------------------------------------------------------------------------
(* Properties.                                                             *)

\* Every variable keeps its type.
TypeOK ==
    /\ disk \in File /\ running \in File /\ stamp \in File
    /\ event \in BOOLEAN /\ lock \in BOOLEAN
    /\ guard \subseteq Tokens /\ policy \subseteq Settings
    /\ actor \in [Actors -> [at : Phases, base : File, file : File, listed : SUBSET Tokens]]
    /\ reloader \in [at : {"off", "idle", "seen", "loaded", "synced", "swapped", "stamped"},
                     seen : File, file : File]
    /\ overtaken \subseteq Actors /\ missed \in BOOLEAN /\ unread \in BOOLEAN
    /\ revoked \subseteq Tokens /\ stray \subseteq Tokens

\* Nothing is under way: no write, no tick that somebody waits for and no reload.
Quiet ==
    /\ reloader.at = "off" \/ (reloader.at = "idle" /\ ~event)
    /\ \A a \in Actors : actor[a].at \in {"idle", "done", "unpersisted", "gone"}

\* Two writes of the console never clobber each other (CONFIG_WRITE_LOCK): one that
\* was answered is in the file, unless a pairing or an outsider wrote over a file it
\* had not read.
ConsoleWritesCompose ==
    \A w \in Consoles :
        (actor[w].at = "done" /\ w \notin disk.settings) => overtaken \ Consoles # {}

\* "Every token the gateway issues is persisted before the response is sent, so a
\* live token survives a reload" (PairingGuard::sync_tokens): when all is quiet a
\* token whose client was told so is in the file, and honoured, unless writes or a
\* reload crossed its pairing. It need not be honoured while the last load of the
\* reloader has failed (an earlier reload may have dropped it), or a stamp or a crossing
\* of the memory hid the file.
PairedTokensLast ==
    \A p \in Pairings :
        (actor[p].at = "done" /\ Quiet /\ overtaken = {} /\ p \notin stray)
            => p \in disk.tokens /\ (~missed /\ ~unread => p \in guard)

\* "config.toml [is] the authority" (PairingGuard::sync_tokens): when all is quiet a
\* token deleted from the file is honoured no more, unless the last load of the reloader
\* failed, which "keeps the current config", tokens included, until the file changes
\* again; or there is no watcher; or a pairing listed it, a writer held it from before,
\* or the stamp of a console write hid the deletion.
RevocationLasts ==
    (Quiet /\ ~missed /\ ~unread /\ overtaken = {}) => revoked \cap guard \subseteq stray

\* What was written elsewhere is followed without a restart (spawn_config_reloader):
\* once the last write is over, the running configuration, the autonomy in force and
\* the tokens are those of the file for good, unless the reloader could not load that
\* file (or has no watcher), or, after the last reload began, a writer set one of them
\* from a file that had been replaced or beside that reload, or put back a file whose
\* fingerprint the gateway holds. Loads that failed earlier are made good.
ReloadConverges ==
    <>[](\/ missed \/ unread
         \/ running = disk /\ policy = disk.settings /\ disk.tokens \ stray \subseteq guard)
=============================================================================
