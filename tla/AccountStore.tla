---------------------------- MODULE AccountStore ----------------------------
(***************************************************************************)
(* The registered accounts (auth/store.go) and the file that keeps them    *)
(* (auth/account_file.go).  A registration holds the store's mutex while   *)
(* it replaces the file, so no other method runs between its steps, but    *)
(* any step may fail, the process may be killed and the machine may lose   *)
(* power after any of them.                                                *)
(*                                                                         *)
(* The temporary file is complete and synced when it is renamed over the   *)
(* old one, so everything before the rename is one step that succeeds or   *)
(* leaves no trace.  The rename itself is certain only once the directory  *)
(* is synced: until then `landing' holds every content that the directory  *)
(* entry may show after a power loss.  A missing file reads as no accounts *)
(* and is written here as the empty content.                               *)
(***************************************************************************)
EXTENDS Integers, FiniteSets

CONSTANTS
  Names,                 \* usernames
  Passwords,             \* password hashes
  Hashes,                \* account hashes
  BOZAccountHash,        \* name -> hash; names that differ in case share one
  Sources,               \* IPv4 addresses and IPv6 /64 networks
  MaxAccounts,           \* store.maxAccounts
  MaxAccountsPerSource,  \* store.maxAccountsPerSource
  MaxReadable,           \* how many accounts fill maxAccountFileBytes
  MaxUserID,             \* bound: user IDs (the uint64 never wraps)
  MaxLanding,            \* bound: contents a power loss may choose from
  NoAccount              \* marks a key that is not in a map

UserIDs == 1..MaxUserID

Account == [id : UserIDs, name : Names, password : Passwords]

ASSUME AccountAssumption ==
  /\ IsFiniteSet(Names)
  /\ BOZAccountHash \in [Names -> Hashes]
  /\ MaxAccounts \in Nat \ {0}
  /\ MaxAccountsPerSource \in Nat \ {0}
  /\ MaxReadable \in Nat
  /\ MaxUserID \in Nat
  /\ MaxLanding \in Nat
  /\ NoAccount \notin Account

VARIABLES
  up,                \* the process runs and has loaded the file
  byUsername, byHash, byUserID, nextUserID, accountsBySource,  \* its memory
  stage,             \* how far the registration that holds the mutex has got
  account, source,   \* the account it makes and the peer that asked for it
  file,              \* the content of the account file as programs read it
  landing,           \* the contents it may have after a power loss
  acknowledged       \* the accounts whose creation was reported to the peer

memory == <<up, byUsername, byHash, byUserID, nextUserID, accountsBySource>>
call   == <<stage, account, source>>
disk   == <<file, landing>>
vars   == <<memory, call, disk, acknowledged>>

Contents == SUBSET Account

\* the content of a file that was only partly written: no set of accounts
Torn == {NoAccount}

TypeOK ==
  /\ up \in BOOLEAN
  /\ byUsername \in [Names -> Account \cup {NoAccount}]
  /\ byHash \in [Hashes -> Account \cup {NoAccount}]
  /\ byUserID \in [UserIDs -> Account \cup {NoAccount}]
  /\ nextUserID \in 1..MaxUserID + 1
  /\ accountsBySource \in [Sources -> 0..MaxAccountsPerSource]
  /\ stage \in {"idle", "writing", "renamed", "synced"}
  /\ stage # "idle" => up /\ account \in Account /\ source \in Sources
  /\ file \in Contents
  /\ landing \in SUBSET Contents
  /\ acknowledged \in Contents

-----------------------------------------------------------------------------
\* the accounts that byUsername holds
Registered == {byUsername[n] : n \in Names} \ {NoAccount}

(***************************************************************************)
(* Variants with a plausible bug.  No action uses them: each stands in for *)
(* a definition below to show that a property notices the difference.      *)
(***************************************************************************)
\* the limit of a source is checked with > where the code has >=
SourceOneOver(s) == accountsBySource[s] <= MaxAccountsPerSource

\* the file is written from the map before the new account is in it
WithoutNew == Registered

\* temporary.Sync is left out: the rename may reach the disk before the data
MaybeTorn(c) == {c, Torn}

\* the store answers before the directory is synced
BeforeSync == "renamed"

\* the index by hash is not filled when the file is loaded
HashForgotten(c) == [h \in Hashes |-> NoAccount]

-----------------------------------------------------------------------------
(* Loading the file                                                        *)

\* no two accounts of c share an ID, a name or a hash
Unique(c) ==
  \A a, b \in c :
    \/ a.id = b.id
    \/ a.name = b.name
    \/ BOZAccountHash[a.name] = BOZAccountHash[b.name]
    => a = b

\* what readAccountFile accepts
Readable(c) ==
  /\ c # Torn
  /\ Cardinality(c) <= MaxReadable
  /\ Cardinality(c) <= MaxAccounts
  /\ Unique(c)

\* the entry that a map has for the accounts of S after loading
Entry(S) == IF S = {} THEN NoAccount ELSE CHOOSE a \in S : TRUE

NamesOf(c) == [n \in Names |-> Entry({a \in c : a.name = n})]
HashesOf(c) == [h \in Hashes |-> Entry({a \in c : BOZAccountHash[a.name] = h})]
IDsOf(c) == [i \in UserIDs |-> Entry({a \in c : a.id = i})]

\* k is one above every user ID of c, and 1 if there is none
FollowsAll(c, k) ==
  /\ \A a \in c : a.id < k
  /\ k = 1 \/ \E a \in c : a.id = k - 1

Loaded(c) ==
  /\ byUsername' = NamesOf(c)
  /\ byHash' = HashesOf(c)
  /\ byUserID' = IDsOf(c)
  /\ \E k \in 1..MaxUserID + 1 : FollowsAll(c, k) /\ nextUserID' = k
  /\ accountsBySource' = [s \in Sources |-> 0]

Init ==
  /\ up = FALSE
  /\ byUsername = NamesOf({}) /\ byHash = HashesOf({}) /\ byUserID = IDsOf({})
  /\ nextUserID = 1
  /\ accountsBySource = [s \in Sources |-> 0]
  /\ stage = "idle"
  /\ account = NoAccount
  /\ source = NoAccount
  /\ file = {}
  /\ landing = {{}}
  /\ acknowledged = {}

Start ==
  /\ ~up
  /\ Readable(file)
  /\ up' = TRUE
  /\ Loaded(file)
  /\ UNCHANGED <<call, disk, acknowledged>>

-----------------------------------------------------------------------------
(* Registering an account                                                  *)

SourceRoom(s) == accountsBySource[s] < MaxAccountsPerSource

HashFree(n) == byHash[BOZAccountHash[n]] = NoAccount

\* the checks of register that return before anything is made
Acceptable(n, s) ==
  /\ byUsername[n] = NoAccount
  /\ Cardinality(Registered) < MaxAccounts
  /\ SourceRoom(s)
  /\ HashFree(n)

RegisterFromPeer(n, p, s) ==
  /\ up
  /\ stage = "idle"
  /\ nextUserID <= MaxUserID
  /\ Acceptable(n, s)
  /\ account' = [id |-> nextUserID, name |-> n, password |-> p]
  /\ source' = s
  /\ stage' = "writing"
  /\ UNCHANGED <<memory, disk, acknowledged>>

\* the name is taken, a limit is reached or the hash collides
RegisterRefused(n, s) ==
  /\ up
  /\ stage = "idle"
  /\ ~Acceptable(n, s)
  /\ UNCHANGED vars

Written == Registered \cup {account}

\* what the disk can hold of a file renamed with content c
Flushed(c) == {c}

\* the temporary file is made, written, synced, closed and renamed
Rename ==
  /\ stage = "writing"
  /\ Cardinality(landing \cup {Written}) <= MaxLanding
  /\ file' = Written
  /\ landing' = landing \cup Flushed(Written)
  /\ stage' = "renamed"
  /\ UNCHANGED <<memory, account, source, acknowledged>>

Released == stage' = "idle" /\ UNCHANGED <<account, source>>

\* a step up to the rename fails and the temporary file is removed
WriteFails ==
  /\ stage = "writing"
  /\ Released
  /\ UNCHANGED <<memory, disk, acknowledged>>

SyncDirectory ==
  /\ stage = "renamed"
  /\ landing' = {file}
  /\ stage' = "synced"
  /\ UNCHANGED <<memory, account, source, file, acknowledged>>

\* the directory cannot be opened or synced: the file is replaced all the same
SyncFails ==
  /\ stage = "renamed"
  /\ Released
  /\ UNCHANGED <<memory, disk, acknowledged>>

\* the stage at which the account enters the maps and the caller returns
Durable == "synced"

Commit ==
  /\ stage = Durable
  /\ nextUserID' = nextUserID + 1
  /\ byUsername' = [byUsername EXCEPT ![account.name] = account]
  /\ byHash' = [byHash EXCEPT ![BOZAccountHash[account.name]] = account]
  /\ byUserID' = [byUserID EXCEPT ![account.id] = account]
  /\ accountsBySource' = [accountsBySource EXCEPT ![source] = @ + 1]
  /\ acknowledged' = acknowledged \cup {account}
  /\ Released
  /\ UNCHANGED <<up, disk>>

-----------------------------------------------------------------------------
(* Crashes                                                                 *)

Stopped ==
  /\ up' = FALSE
  /\ Loaded({})
  /\ stage' = "idle"
  /\ UNCHANGED <<account, source, acknowledged>>

Kill ==
  /\ up
  /\ Stopped
  /\ UNCHANGED disk

PowerLoss ==
  /\ Stopped
  /\ \E c \in landing : file' = c /\ landing' = {c}

Next ==
  \/ Start \/ Rename \/ WriteFails \/ SyncDirectory \/ SyncFails \/ Commit
  \/ Kill \/ PowerLoss
  \/ \E n \in Names, s \in Sources :
       \/ \E p \in Passwords : RegisterFromPeer(n, p, s)
       \/ RegisterRefused(n, s)

Spec == Init /\ [][Next]_vars

-----------------------------------------------------------------------------
(* Properties                                                              *)

\* An account whose creation was reported is never lost: whatever fails from
\* then on, and whatever the power loss leaves, its ID and password are there.
AcknowledgedSurvive == \A c \in landing \cup {file} : acknowledged \subseteq c

\* The store never locks itself out: readAccountFile accepts everything that
\* writeAccountFile may have left on the disk.
Recoverable == \A c \in landing \cup {file} : Readable(c)

\* The three maps hold the same accounts, each under its own keys, so that a
\* login by hash and a lobby client by user ID reach the same account.
MapsAgree ==
  /\ \A n \in Names :
       byUsername[n] # NoAccount =>
         /\ byUsername[n].name = n
         /\ byHash[BOZAccountHash[n]] = byUsername[n]
         /\ byUserID[byUsername[n].id] = byUsername[n]
  /\ \A h \in Hashes : byHash[h] # NoAccount => byHash[h] \in Registered
  /\ \A i \in UserIDs : byUserID[i] # NoAccount => byUserID[i] \in Registered

\* Memory is never ahead of the file, and the file never ahead of memory by
\* more than the account of one registration that was cut short, which the
\* next registration replaces, ID included.
FileAhead ==
  up =>
    /\ Registered \subseteq file
    /\ \A a \in file \ Registered : a.id = nextUserID

\* A registration that failed leaves nothing behind: as soon as no call is
\* under way, the file holds what memory holds.
FailedRollsBack == up /\ stage = "idle" => file = Registered
=============================================================================
