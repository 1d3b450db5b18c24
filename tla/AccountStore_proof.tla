-------------------------- MODULE AccountStore_proof --------------------------
(***************************************************************************)
(* Proofs about the account store: whatever fails, and whatever a power    *)
(* loss leaves of the file, acknowledged accounts survive and the store    *)
(* comes up again, for any names, hashes, peers and limits.                *)
(***************************************************************************)
EXTENDS AccountStore, FiniteSetTheorems, TLAPS

\* A content that the store may have written.
Sound(c) ==
  /\ c \in Contents
  /\ IsFiniteSet(c)
  /\ Cardinality(c) <= MaxAccounts
  /\ Unique(c)

\* The three maps are indexes of one set of accounts with IDs already used.
MemoryInv ==
  /\ \A n \in Names :
       byUsername[n] # NoAccount =>
         /\ byUsername[n].name = n
         /\ byHash[BOZAccountHash[n]] = byUsername[n]
         /\ byUserID[byUsername[n].id] = byUsername[n]
         /\ byUsername[n].id < nextUserID
  /\ \A h \in Hashes : byHash[h] # NoAccount => byHash[h] \in Registered
  /\ \A i \in UserIDs : byUserID[i] # NoAccount => byUserID[i] \in Registered
  /\ Cardinality(Registered) <= MaxAccounts

\* What a registration under way knows: the checks it made still hold, for it
\* has the mutex, and how far it has taken the file.
CallInv ==
  /\ stage # "idle" =>
       /\ account.id = nextUserID
       /\ Acceptable(account.name, source)
  /\ stage \in {"renamed", "synced"} => file = Written
  /\ stage = "synced" => landing = {file}

\* Every content the disk may show is sound and has the acknowledged accounts,
\* and so has memory, which the file runs ahead of by one account at most.
DiskInv ==
  /\ file \in landing
  /\ \A c \in landing : Sound(c) /\ acknowledged \subseteq c
  /\ up => acknowledged \subseteq Registered
  /\ FileAhead

IInv == TypeOK /\ MemoryInv /\ CallInv /\ DiskInv

-----------------------------------------------------------------------------
\* Memory holds finitely many accounts, one for each name at most.
LEMMA RegisteredFinite ==
  ASSUME TypeOK
  PROVE  IsFiniteSet(Registered) /\ Registered \in Contents
<1> DEFINE Image == {byUsername[n] : n \in Names}
<1>1. byUsername \in Surjection(Names, Image)
  BY DEF TypeOK, Surjection
<1>2. IsFiniteSet(Image)
  BY <1>1, FS_Surjection, AccountAssumption
<1>3. Registered \in SUBSET Image
  BY DEF Registered
<1>4. Registered \in Contents
  BY DEF Registered, TypeOK, Contents
<1> QED
  BY <1>2, <1>3, <1>4, FS_Subset

\* The checks of register keep IDs, names and hashes distinct.
LEMMA RegisteredUnique ==
  ASSUME TypeOK, MemoryInv
  PROVE  Unique(Registered)
<1>1. \A a \in Registered : a \in Account /\ byUsername[a.name] = a
  BY DEF TypeOK, MemoryInv, Registered
<1>2. \A a \in Registered : a.name \in Names /\ a.id \in UserIDs
  BY <1>1 DEF Account
<1>3. \A a \in Registered : byHash[BOZAccountHash[a.name]] = a /\ byUserID[a.id] = a
  BY <1>1, <1>2, AccountAssumption DEF MemoryInv
<1> QED
  BY <1>1, <1>3 DEF Unique

\* What is written to the file in the course of a registration is sound.
LEMMA WrittenSound ==
  ASSUME IInv, stage # "idle"
  PROVE  /\ Sound(Written)
         /\ account \notin Registered
<1>1. /\ account \in Account
      /\ account.id = nextUserID
      /\ Acceptable(account.name, source)
  BY DEF IInv, TypeOK, CallInv
<1>2. account.name \in Names /\ account.id \in UserIDs
  BY <1>1 DEF Account
<1>3. \A a \in Registered :
        /\ a \in Account /\ a.name \in Names /\ a.id \in UserIDs
        /\ byUsername[a.name] = a
        /\ byHash[BOZAccountHash[a.name]] = a
        /\ a.id < nextUserID
  BY AccountAssumption DEF IInv, TypeOK, MemoryInv, Registered, Account
<1>4. \A a \in Registered :
        /\ a.id # account.id
        /\ a.name # account.name
        /\ BOZAccountHash[a.name] # BOZAccountHash[account.name]
  <2> SUFFICES ASSUME NEW a \in Registered
               PROVE  /\ a.id # account.id
                      /\ a.name # account.name
                      /\ BOZAccountHash[a.name] # BOZAccountHash[account.name]
    OBVIOUS
  <2>0. a # NoAccount
    BY DEF Registered
  <2>1. a.id # account.id
    BY <1>1, <1>2, <1>3 DEF UserIDs, IInv, TypeOK
  <2>2. a.name # account.name
    BY <1>1, <1>3, <2>0 DEF Acceptable
  <2>3. BOZAccountHash[a.name] # BOZAccountHash[account.name]
    BY <1>1, <1>3, <2>0 DEF Acceptable, HashFree
  <2> QED
    BY <2>1, <2>2, <2>3
<1>5. account \notin Registered
  BY <1>4
<1>6. Unique(Written)
  <2>1. Unique(Registered)
    BY RegisteredUnique DEF IInv
  <2> QED
    BY <1>4, <2>1 DEF Unique, Written
<1>7. IsFiniteSet(Written) /\ Cardinality(Written) = Cardinality(Registered) + 1
  BY <1>5, RegisteredFinite, FS_AddElement DEF IInv, Written
<1>8. Cardinality(Written) <= MaxAccounts
  BY <1>1, <1>7, RegisteredFinite, FS_CardinalityType, AccountAssumption
     DEF IInv, Acceptable
<1>9. Written \in Contents
  BY <1>1, RegisteredFinite DEF IInv, Written, Contents
<1> QED
  BY <1>5, <1>6, <1>7, <1>8, <1>9 DEF Sound

\* Reading a file of distinct accounts gives three maps of just those.
LEMMA LoadedMaps ==
  ASSUME NEW c \in Contents, Unique(c)
  PROVE  /\ NamesOf(c) \in [Names -> Account \cup {NoAccount}]
         /\ HashesOf(c) \in [Hashes -> Account \cup {NoAccount}]
         /\ IDsOf(c) \in [UserIDs -> Account \cup {NoAccount}]
         /\ \A n \in Names : NamesOf(c)[n] # NoAccount =>
              NamesOf(c)[n] \in c /\ NamesOf(c)[n].name = n
         /\ \A h \in Hashes : HashesOf(c)[h] # NoAccount => HashesOf(c)[h] \in c
         /\ \A i \in UserIDs : IDsOf(c)[i] # NoAccount => IDsOf(c)[i] \in c
         /\ \A a \in c : /\ NamesOf(c)[a.name] = a
                         /\ HashesOf(c)[BOZAccountHash[a.name]] = a
                         /\ IDsOf(c)[a.id] = a
<1>1. ASSUME NEW S \in SUBSET c
      PROVE  /\ Entry(S) \in S \cup {NoAccount}
             /\ \A a \in S : (\A b \in S : a = b) => Entry(S) = a
  <2>1. CASE S = {}
    BY <2>1 DEF Entry
  <2>2. CASE S # {}
    <3>1. (CHOOSE a \in S : TRUE) \in S
      BY <2>2
    <3> QED
      BY <2>2, <3>1 DEF Entry
  <2> QED
    BY <2>1, <2>2
<1>2. \A n \in Names : NamesOf(c)[n] \in {a \in c : a.name = n} \cup {NoAccount}
  BY <1>1 DEF NamesOf
<1>3. \A h \in Hashes :
        HashesOf(c)[h] \in {a \in c : BOZAccountHash[a.name] = h} \cup {NoAccount}
  BY <1>1 DEF HashesOf
<1>4. \A i \in UserIDs : IDsOf(c)[i] \in {a \in c : a.id = i} \cup {NoAccount}
  BY <1>1 DEF IDsOf
<1>5. ASSUME NEW a \in c
      PROVE  /\ NamesOf(c)[a.name] = a
             /\ HashesOf(c)[BOZAccountHash[a.name]] = a
             /\ IDsOf(c)[a.id] = a
  <2> DEFINE SameName == {b \in c : b.name = a.name}
             SameHash == {b \in c : BOZAccountHash[b.name] = BOZAccountHash[a.name]}
             SameID == {b \in c : b.id = a.id}
  <2>1. a \in Account /\ a.name \in Names /\ a.id \in UserIDs
    BY DEF Contents, Account
  <2>2. BOZAccountHash[a.name] \in Hashes
    BY <2>1, AccountAssumption
  <2>3. /\ \A b \in SameName : a = b
        /\ \A b \in SameHash : a = b
        /\ \A b \in SameID : a = b
    BY DEF Unique
  <2>4. Entry(SameName) = a /\ Entry(SameHash) = a /\ Entry(SameID) = a
    <3> HIDE DEF SameName, SameHash, SameID
    <3>1. /\ SameName \in SUBSET c /\ SameHash \in SUBSET c /\ SameID \in SUBSET c
          /\ a \in SameName /\ a \in SameHash /\ a \in SameID
      BY DEF SameName, SameHash, SameID
    <3> QED
      BY <1>1, <2>3, <3>1
  <2> QED
    BY <2>1, <2>2, <2>4 DEF NamesOf, HashesOf, IDsOf
<1>6. /\ NamesOf(c) \in [Names -> Account \cup {NoAccount}]
      /\ HashesOf(c) \in [Hashes -> Account \cup {NoAccount}]
      /\ IDsOf(c) \in [UserIDs -> Account \cup {NoAccount}]
  <2>1. c \subseteq Account
    BY DEF Contents
  <2> QED
    BY <1>2, <1>3, <1>4, <2>1 DEF NamesOf, HashesOf, IDsOf
<1> QED
  BY <1>2, <1>3, <1>4, <1>5, <1>6

\* With maps loaded from a sound content, memory is exactly that content.
LEMMA LoadedInv ==
  ASSUME NEW c, Sound(c), Loaded(c), accountsBySource' \in [Sources -> Nat]
  PROVE  /\ byUsername' \in [Names -> Account \cup {NoAccount}]
         /\ byHash' \in [Hashes -> Account \cup {NoAccount}]
         /\ byUserID' \in [UserIDs -> Account \cup {NoAccount}]
         /\ nextUserID' \in 1..MaxUserID + 1
         /\ accountsBySource' \in [Sources -> 0..MaxAccountsPerSource]
         /\ Registered' = c
         /\ MemoryInv'
<1> USE DEF Loaded
<1>1. c \in Contents /\ Unique(c)
  BY DEF Sound
<1> DEFINE N == NamesOf(c) H == HashesOf(c) I == IDsOf(c)
<1>2. /\ N \in [Names -> Account \cup {NoAccount}]
      /\ H \in [Hashes -> Account \cup {NoAccount}]
      /\ I \in [UserIDs -> Account \cup {NoAccount}]
      /\ \A n \in Names : N[n] # NoAccount => N[n] \in c /\ N[n].name = n
      /\ \A h \in Hashes : H[h] # NoAccount => H[h] \in c
      /\ \A i \in UserIDs : I[i] # NoAccount => I[i] \in c
      /\ \A a \in c : N[a.name] = a /\ H[BOZAccountHash[a.name]] = a /\ I[a.id] = a
  BY <1>1, LoadedMaps
<1>3. byUsername' = N /\ byHash' = H /\ byUserID' = I
  OBVIOUS
<1> HIDE DEF N, H, I
<1>4. \A a \in c : a \in Account /\ a.name \in Names /\ a # NoAccount
  BY <1>1, AccountAssumption DEF Contents, Account
<1>5. Registered' = c
  <2>1. \A a \in c : a \in {N[n] : n \in Names} \ {NoAccount}
    BY <1>2, <1>4
  <2>2. \A a \in {N[n] : n \in Names} \ {NoAccount} : a \in c
    BY <1>2
  <2> QED
    BY <1>3, <2>1, <2>2 DEF Registered
<1>6. \A a \in c : a.id < nextUserID'
  BY DEF FollowsAll
<1>7. MemoryInv'
  BY <1>2, <1>3, <1>5, <1>6 DEF MemoryInv, Sound
<1>8. accountsBySource' \in [Sources -> 0..MaxAccountsPerSource]
  BY AccountAssumption
<1>9. nextUserID' \in 1..MaxUserID + 1
  OBVIOUS
<1> QED
  BY <1>2, <1>3, <1>5, <1>7, <1>8, <1>9

LEMMA EmptySound == Sound({})
  BY FS_EmptySet, AccountAssumption DEF Sound, Contents, Unique

LEMMA InitIInv == Init => IInv
<1> SUFFICES ASSUME Init PROVE IInv
  OBVIOUS
<1> USE DEF Init
<1>1. /\ NamesOf({}) = [n \in Names |-> NoAccount]
      /\ HashesOf({}) = [h \in Hashes |-> NoAccount]
      /\ IDsOf({}) = [i \in UserIDs |-> NoAccount]
  BY DEF NamesOf, HashesOf, IDsOf, Entry
<1>2. Registered = {}
  BY <1>1 DEF Registered
<1>3. TypeOK
  <2>1. /\ byUsername \in [Names -> Account \cup {NoAccount}]
        /\ byHash \in [Hashes -> Account \cup {NoAccount}]
        /\ byUserID \in [UserIDs -> Account \cup {NoAccount}]
    BY <1>1
  <2>2. nextUserID \in 1..MaxUserID + 1
    BY AccountAssumption
  <2>3. accountsBySource \in [Sources -> 0..MaxAccountsPerSource]
    BY AccountAssumption
  <2>4. file \in Contents /\ landing \in SUBSET Contents /\ acknowledged \in Contents
    BY DEF Contents
  <2> QED
    BY <2>1, <2>2, <2>3, <2>4 DEF TypeOK
<1>4. MemoryInv
  BY <1>1, <1>2, FS_EmptySet, AccountAssumption DEF MemoryInv
<1>5. CallInv
  BY DEF CallInv
<1>6. DiskInv
  BY EmptySound DEF DiskInv, FileAhead
<1> QED
  BY <1>3, <1>4, <1>5, <1>6 DEF IInv

-----------------------------------------------------------------------------
(* Each step preserves the invariant                                       *)

LEMMA StartPreserves ==
  ASSUME IInv, Start
  PROVE  IInv'
<1> USE DEF Start
<1>1. Sound(file)
  BY DEF IInv, DiskInv
<1>2. accountsBySource' \in [Sources -> Nat]
  BY DEF Loaded
<1>3. /\ byUsername' \in [Names -> Account \cup {NoAccount}]
      /\ byHash' \in [Hashes -> Account \cup {NoAccount}]
      /\ byUserID' \in [UserIDs -> Account \cup {NoAccount}]
      /\ nextUserID' \in 1..MaxUserID + 1
      /\ accountsBySource' \in [Sources -> 0..MaxAccountsPerSource]
      /\ Registered' = file
      /\ MemoryInv'
  BY <1>1, <1>2, LoadedInv
<1>4. stage = "idle" /\ stage' = "idle"
  BY DEF IInv, TypeOK, call
<1>5. TypeOK'
  BY <1>3, <1>4 DEF IInv, TypeOK, call, disk
<1>6. CallInv'
  BY <1>4 DEF CallInv
<1>7. DiskInv'
  BY <1>3 DEF IInv, DiskInv, FileAhead, disk
<1> QED
  BY <1>3, <1>5, <1>6, <1>7 DEF IInv

LEMMA StoppedPreserves ==
  ASSUME IInv, Stopped, NEW c \in landing, NEW L, file' = c, landing' = L,
         c \in L, L \subseteq landing
  PROVE  IInv'
<1> USE DEF Stopped
<1>1. accountsBySource' \in [Sources -> Nat]
  BY DEF Loaded
<1>2. /\ byUsername' \in [Names -> Account \cup {NoAccount}]
      /\ byHash' \in [Hashes -> Account \cup {NoAccount}]
      /\ byUserID' \in [UserIDs -> Account \cup {NoAccount}]
      /\ nextUserID' \in 1..MaxUserID + 1
      /\ accountsBySource' \in [Sources -> 0..MaxAccountsPerSource]
      /\ MemoryInv'
  BY <1>1, EmptySound, LoadedInv
<1>3. TypeOK'
  BY <1>2 DEF IInv, TypeOK
<1>4. CallInv'
  BY DEF CallInv
<1>5. DiskInv'
  BY DEF IInv, DiskInv, FileAhead
<1> QED
  BY <1>2, <1>3, <1>4, <1>5 DEF IInv

LEMMA RegisterPreserves ==
  ASSUME IInv, NEW n \in Names, NEW p \in Passwords, NEW s \in Sources,
         RegisterFromPeer(n, p, s)
  PROVE  IInv'
<1> USE DEF RegisterFromPeer, memory, disk
<1>1. account' \in Account
  BY DEF IInv, TypeOK, Account, UserIDs
<1>2. TypeOK'
  BY <1>1 DEF IInv, TypeOK
<1>3. MemoryInv'
  BY DEF IInv, MemoryInv, Registered
<1>4. CallInv'
  BY DEF CallInv, Acceptable, Registered, SourceRoom, HashFree
<1>5. DiskInv'
  BY DEF IInv, DiskInv, Sound, FileAhead, Registered
<1> QED
  BY <1>2, <1>3, <1>4, <1>5 DEF IInv

LEMMA RenamePreserves ==
  ASSUME IInv, Rename
  PROVE  IInv'
<1> USE DEF Rename, memory
<1>1. Sound(Written) /\ account.id = nextUserID
  BY WrittenSound DEF IInv, CallInv
<1>2. TypeOK'
  BY <1>1 DEF IInv, TypeOK, Flushed, Sound
<1>3. MemoryInv'
  BY DEF IInv, MemoryInv, Registered
<1>4. CallInv'
  BY DEF IInv, CallInv, Acceptable, Registered, SourceRoom, HashFree, Written
<1>5. DiskInv'
  <2>1. up /\ acknowledged \subseteq Registered
    BY DEF IInv, TypeOK, DiskInv
  <2>2. Registered' = Registered
    BY DEF Registered
  <2>3. \A c \in landing' : Sound(c) /\ acknowledged' \subseteq c
    BY <1>1, <2>1 DEF IInv, DiskInv, Flushed, Written
  <2>4. FileAhead'
    BY <1>1, <2>2 DEF FileAhead, Written
  <2> QED
    BY <2>1, <2>2, <2>3, <2>4 DEF DiskInv, Flushed
<1> QED
  BY <1>2, <1>3, <1>4, <1>5 DEF IInv

LEMMA FailurePreserves ==
  ASSUME IInv, WriteFails \/ SyncFails
  PROVE  IInv'
<1>0. UNCHANGED <<memory, disk, acknowledged>> /\ stage' = "idle"
  BY DEF WriteFails, SyncFails, Released
<1> USE <1>0 DEF memory, disk
<1>1. TypeOK'
  BY DEF IInv, TypeOK
<1>2. MemoryInv'
  BY DEF IInv, MemoryInv, Registered
<1>3. CallInv'
  BY DEF CallInv
<1>4. DiskInv'
  BY DEF IInv, DiskInv, Sound, FileAhead, Registered
<1> QED
  BY <1>1, <1>2, <1>3, <1>4 DEF IInv

LEMMA SyncPreserves ==
  ASSUME IInv, SyncDirectory
  PROVE  IInv'
<1> USE DEF SyncDirectory, memory
<1>1. TypeOK'
  BY DEF IInv, TypeOK
<1>2. MemoryInv'
  BY DEF IInv, MemoryInv, Registered
<1>3. CallInv'
  BY DEF IInv, CallInv, Acceptable, Registered, SourceRoom, HashFree, Written
<1>4. DiskInv'
  BY DEF IInv, DiskInv, Sound, FileAhead, Registered
<1> QED
  BY <1>1, <1>2, <1>3, <1>4 DEF IInv

LEMMA CommitPreserves ==
  ASSUME IInv, Commit
  PROVE  IInv'
<1> USE DEF Commit, Durable, Released, disk
<1>1. /\ account \in Account /\ source \in Sources
      /\ account.id = nextUserID
      /\ Acceptable(account.name, source)
      /\ file = Written /\ landing = {file}
  BY DEF IInv, TypeOK, CallInv
<1>2. account.name \in Names /\ account.id \in UserIDs /\ account # NoAccount
  BY <1>1, AccountAssumption DEF Account
<1>3. BOZAccountHash[account.name] \in Hashes
  BY <1>2, AccountAssumption
<1>4. Sound(Written) /\ account \notin Registered
  BY WrittenSound
<1>5. TypeOK'
  <2>1. accountsBySource' \in [Sources -> 0..MaxAccountsPerSource]
    BY <1>1, AccountAssumption DEF IInv, TypeOK, Acceptable, SourceRoom
  <2>2. nextUserID' \in 1..MaxUserID + 1
    BY <1>1, <1>2, AccountAssumption DEF IInv, TypeOK, UserIDs
  <2> QED
    BY <1>1, <2>1, <2>2 DEF IInv, TypeOK, Contents
<1>6. Registered' = Written
  <2>1. byUsername[account.name] = NoAccount
    BY <1>1 DEF Acceptable
  <2>2. byUsername \in [Names -> Account \cup {NoAccount}]
    BY DEF IInv, TypeOK
  <2>3. \A n \in Names :
          byUsername'[n] = IF n = account.name THEN account ELSE byUsername[n]
    BY <2>2
  <2>4. \A a \in Registered' : a \in Written
    BY <2>3 DEF Registered, Written
  <2>5. \A a \in Written : a \in Registered'
    BY <1>2, <2>1, <2>3 DEF Registered, Written
  <2> QED
    BY <2>4, <2>5
<1>7. MemoryInv'
  <2>1. ASSUME NEW n \in Names, byUsername'[n] # NoAccount
        PROVE  /\ byUsername'[n].name = n
               /\ byHash'[BOZAccountHash[n]] = byUsername'[n]
               /\ byUserID'[byUsername'[n].id] = byUsername'[n]
               /\ byUsername'[n].id < nextUserID'
    <3>1. CASE n = account.name
      BY <1>1, <1>2, <1>3, <3>1 DEF IInv, TypeOK
    <3>2. CASE n # account.name
      <4> DEFINE b == byUsername[n]
      <4>1. byUsername'[n] = b /\ b # NoAccount
        BY <2>1, <3>2 DEF IInv, TypeOK
      <4>2. /\ b \in Account /\ b.id \in UserIDs
            /\ b.name = n /\ byHash[BOZAccountHash[n]] = b
            /\ byUserID[b.id] = b /\ b.id < nextUserID
        BY <4>1 DEF IInv, TypeOK, MemoryInv, Account
      <4>3. BOZAccountHash[n] # BOZAccountHash[account.name]
        BY <1>1, <4>1, <4>2 DEF Acceptable, HashFree
      <4>4. b.id # account.id
        BY <1>1, <4>2 DEF IInv, TypeOK, UserIDs
      <4>5. byHash'[BOZAccountHash[n]] = b
        BY <4>2, <4>3, AccountAssumption DEF IInv, TypeOK
      <4>6. byUserID'[b.id] = b
        BY <4>2, <4>4 DEF IInv, TypeOK
      <4>7. b.id < nextUserID'
        BY <4>2 DEF IInv, TypeOK, UserIDs
      <4> QED
        BY <4>1, <4>2, <4>5, <4>6, <4>7
    <3> QED
      BY <3>1, <3>2
  <2>2. /\ \A h \in Hashes : byHash'[h] # NoAccount => byHash'[h] \in Registered'
        /\ \A i \in UserIDs : byUserID'[i] # NoAccount => byUserID'[i] \in Registered'
    BY <1>6 DEF IInv, TypeOK, MemoryInv, Written
  <2>3. Cardinality(Registered') <= MaxAccounts
    BY <1>4, <1>6 DEF Sound
  <2> QED
    BY <2>1, <2>2, <2>3 DEF MemoryInv
<1>8. CallInv'
  BY DEF CallInv
<1>9. DiskInv'
  <2>1. up /\ acknowledged \subseteq Registered
    BY DEF IInv, TypeOK, DiskInv
  <2>2. acknowledged' \subseteq Registered'
    BY <1>6, <2>1 DEF Written
  <2>3. \A c \in landing' : Sound(c) /\ acknowledged' \subseteq c
    BY <1>1, <1>4, <1>6, <2>2
  <2>4. FileAhead'
    BY <1>1, <1>6 DEF FileAhead
  <2> QED
    BY <1>1, <2>2, <2>3, <2>4 DEF DiskInv
<1> QED
  BY <1>5, <1>7, <1>8, <1>9 DEF IInv

LEMMA StepIInv == IInv /\ [Next]_vars => IInv'
<1> SUFFICES ASSUME IInv, [Next]_vars PROVE IInv'
  OBVIOUS
<1>1. CASE Start
  BY <1>1, StartPreserves
<1>2. CASE Rename
  BY <1>2, RenamePreserves
<1>3. CASE WriteFails \/ SyncFails
  BY <1>3, FailurePreserves
<1>4. CASE SyncDirectory
  BY <1>4, SyncPreserves
<1>5. CASE Commit
  BY <1>5, CommitPreserves
<1>6. CASE Kill
  BY <1>6, StoppedPreserves DEF Kill, disk, IInv, DiskInv
<1>7. CASE PowerLoss
  <2>1. PICK c \in landing : file' = c /\ landing' = {c}
    BY <1>7 DEF PowerLoss
  <2> QED
    BY <1>7, <2>1, StoppedPreserves DEF PowerLoss
<1>8. ASSUME NEW n \in Names, NEW p \in Passwords, NEW s \in Sources,
             RegisterFromPeer(n, p, s)
      PROVE  IInv'
  BY <1>8, RegisterPreserves
<1>9. CASE UNCHANGED vars
  BY <1>9 DEF vars, memory, call, disk, IInv, TypeOK, MemoryInv, CallInv, DiskInv,
     Acceptable, SourceRoom, HashFree, Registered, Written, Sound, FileAhead
<1> QED
  BY <1>1, <1>2, <1>3, <1>4, <1>5, <1>6, <1>7, <1>8, <1>9
     DEF Next, RegisterRefused

-----------------------------------------------------------------------------
THEOREM Invariance == Spec => []IInv
  BY InitIInv, StepIInv, PTL DEF Spec

\* The maps, counters, the registration under way and the file keep their
\* types through every failure and restart.
THEOREM TypeCorrect == Spec => []TypeOK
<1>1. IInv => TypeOK
  BY DEF IInv
<1> QED
  BY <1>1, Invariance, PTL

\* No failure, kill or power loss loses an account whose creation was
\* reported, or changes its ID or password.
THEOREM Durability == Spec => []AcknowledgedSurvive
<1>1. IInv => AcknowledgedSurvive
  BY DEF IInv, DiskInv, AcknowledgedSurvive
<1> QED
  BY <1>1, Invariance, PTL

\* Where the largest store fits into the largest file that is read, the server
\* comes up again from whatever is left on the disk.
THEOREM Recovery ==
  ASSUME MaxAccounts <= MaxReadable
  PROVE  Spec => []Recoverable
<1>1. IInv => Recoverable
  <2> SUFFICES ASSUME IInv, NEW c \in landing PROVE Readable(c)
    BY DEF Recoverable, IInv, DiskInv
  <2>1. Sound(c)
    BY DEF IInv, DiskInv
  <2>2. c # Torn
    BY <2>1, AccountAssumption DEF Sound, Contents, Torn
  <2>3. Cardinality(c) <= MaxReadable
    BY <2>1, FS_CardinalityType, AccountAssumption DEF Sound
  <2> QED
    BY <2>1, <2>2, <2>3 DEF Sound, Readable
<1> QED
  BY <1>1, Invariance, PTL

\* The indexes by name, by hash and by ID agree: the account a player
\* authenticates as is the one the lobby resolves.
THEOREM IndexesAgree == Spec => []MapsAgree
<1>1. IInv => MapsAgree
  BY DEF IInv, MemoryInv, MapsAgree
<1> QED
  BY <1>1, Invariance, PTL

\* A registration cut short leaves at most one account behind on the file, with
\* the ID that the next registration takes over.
THEOREM OneAhead == Spec => []FileAhead
<1>1. IInv => FileAhead
  BY DEF IInv, DiskInv
<1> QED
  BY <1>1, Invariance, PTL
=============================================================================
