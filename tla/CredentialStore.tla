--------------------------- MODULE CredentialStore ---------------------------
(***************************************************************************)
(* The OAuth credentials of one server: a vault file with an entry under   *)
(* the server's own key and perhaps one under its alias, a cache directory *)
(* with a file for each field, the lock files around them, and the callers *)
(* that read, refresh, authorize, set, clear and import credentials.       *)
(*                                                                         *)
(* A caller takes one step for each file it reads or writes and for each   *)
(* lock; it may be cancelled, its writes may fail, and its process may die *)
(* anywhere.  The server's URL does not change.  Of an entry only tokens   *)
(* and client registration are kept; tokens are their identity, their      *)
(* refresh token and their commit metadata; 0 stands for what is absent.   *)
(***************************************************************************)
EXTENDS Integers, FiniteSets

CONSTANTS
    StoreCallers,       \* callers, each of which makes one call
    MaxTokens,          \* bound: identities of tokens ever issued
    MaxCrashes          \* bound: processes that die

Free == "free"

ASSUME StoreAssumption ==
    /\ MaxTokens \in Nat \ {0, 1} /\ MaxCrashes \in Nat
    /\ Free \notin StoreCallers

VARIABLES
    disk,               \* the credentials in each place they are kept
    locks,              \* who holds each lock file
    hasDirectory,       \* the server has a token cache directory
    users,              \* the callers
    lapsed,             \* identities whose tokens have expired
    issued,             \* the last identity issued
    crashes,            \* processes that have died
    current,            \* history: what a read may find, by the commits so far
    superseded,         \* history: refresh tokens that a commit has replaced
    presented           \* history: who presented which refresh token

storeVars == <<disk, locks, hasDirectory, users, lapsed, issued, crashes,
               current, superseded, presented>>

TokenIds == 0..MaxTokens
ClientIds == 0..2
Token == [id : TokenIds, refresh : TokenIds, revision : Nat,
          parent : TokenIds, client : ClientIds]
NoTokens == [id |-> 0, refresh |-> 0, revision |-> 0, parent |-> 0, client |-> 0]
Snapshot == [tokens : Token, client : ClientIds]
Blank == [tokens |-> NoTokens, client |-> 0]
Conflict == [tokens |-> NoTokens, client |-> -1]
Places == {"exact", "alias", "directory"}

Operations == {"header", "authorize", "reset", "set", "clear", "import"}
Asynchronous == {"header", "authorize", "reset"}

User == [op : Operations \cup {"none"},
         at : {"idle", "reading", "decide", "lock", "request", "register", "callback",
               "vault_lock", "inspect", "write_vault", "clear_vault", "directory_lock",
               "write_tokens", "write_client", "finish", "release",
               "ended", "crashed"},
         why : {"none", "header", "transaction", "expected", "previous", "pending"},
         stage : 0..2,
         view : [Places -> Snapshot],
         basis : Snapshot,          \* what the operation builds on
         patch : Snapshot,          \* what it saves, then the entry it writes
         nulls : BOOLEAN,           \* the patch removes the registration
         client : ClientIds,        \* the registration of a running authorization
         cleared : BOOLEAN,         \* a reset has cleared what there was
         cancelled : BOOLEAN,
         result : TokenIds,
         seen : SUBSET TokenIds]    \* history: what was current while it ran

StoreTypeOK ==
    /\ disk \in [Places -> Snapshot]
    /\ locks \in [{"refresh", "vault", "directory"} -> StoreCallers \cup {Free}]
    /\ hasDirectory \in BOOLEAN
    /\ users \in [StoreCallers -> User]
    /\ lapsed \subseteq TokenIds /\ issued \in TokenIds /\ crashes \in 0..MaxCrashes
    /\ current \subseteq TokenIds /\ superseded \subseteq TokenIds
    /\ presented \subseteq (TokenIds \X StoreCallers)

-----------------------------------------------------------------------------
(* Reconciliation.                                                          *)

HasTokens(snapshot) == snapshot.tokens.id # 0

\* matching: the entries of the vault that are the server's, its own first.
Slot(view) == [view EXCEPT !["directory"] = Blank]
FirstEntry(slot) == IF slot["exact"] # Blank THEN slot["exact"] ELSE slot["alias"]

\* snapshots: the directory comes first, since it is the primary store.
Earliest(view, places) ==
    IF "directory" \in places THEN view["directory"]
    ELSE IF "exact" \in places THEN view["exact"]
    ELSE IF "alias" \in places THEN view["alias"] ELSE Blank

FirstCandidate(view) ==
    LET withTokens == {p \in Places : HasTokens(view[p])}
        withClient == {p \in Places : view[p].client # 0}
    IN  Earliest(view, IF withTokens # {} THEN withTokens ELSE withClient)

PreferFirst(selected, candidate) == selected

\* One comparison of the selected snapshot with a candidate.
Prefer(selected, candidate) ==
    LET now == selected.tokens
        new == candidate.tokens
    IN  CASE \/ selected = Conflict \/ now.id = 0 \/ new.id = 0 \/ now.id = new.id -> selected
          [] OTHER ->
             IF now.revision > 0 /\ new.revision > 0
             THEN CASE now.revision = new.revision -> Conflict
                    [] now.revision < new.revision -> candidate
                    [] now.revision > new.revision -> selected
             ELSE IF new.parent = now.id THEN candidate
             ELSE IF now.parent = new.id THEN selected
             ELSE IF 0 \notin {now.refresh, new.refresh} /\ now.refresh # new.refresh
             THEN Conflict ELSE selected

ValidClient(snapshot) ==
    snapshot.tokens.client # 0 => snapshot.client = snapshot.tokens.client

SelectFirst(view) == FirstCandidate(view)

Preferred(view) ==
    Prefer(Prefer(Prefer(FirstCandidate(view), view["directory"]), view["exact"]), view["alias"])

\* reconcile::select; Conflict stands for every error it reports. A client that is null
\* and one that is absent are both 0: the code fills in only an absent one.
Select(view) ==
    LET first == Preferred(view)
        peers == {p \in Places : view[p].tokens.id = first.tokens.id}
        clients == ({view[p].client : p \in peers} \cup {first.client}) \ {0}
        merged == IF HasTokens(first) /\ clients # {}
                  THEN [first EXCEPT !.client = CHOOSE k \in clients : TRUE] ELSE first
    IN  IF first = Conflict \/ (HasTokens(first) /\ \E k, l \in clients : k # l)
           \/ ~ValidClient(merged)
        THEN Conflict ELSE merged

\* reconcile::stamp
Stamped(tokens, client, previous, view) ==
    LET revisions == {view[p].tokens.revision : p \in Places}
        highest == CHOOSE r \in revisions : \A s \in revisions : s <= r
    IN  [tokens EXCEPT !.revision = highest + 1, !.parent = previous.tokens.id,
                       !.client = client]

\* The first half of save_entry: the entry that will be written.
Entry(patch, nulls, previous, view) ==
    LET client == IF nulls THEN 0 ELSE IF patch.client # 0 THEN patch.client ELSE previous.client
    IN  [client |-> client,
         tokens |-> IF HasTokens(patch)
                    THEN Stamped(patch.tokens, client, previous, view)
                    ELSE previous.tokens]

OnDisk == Select(disk)
Expired(snapshot) == snapshot.tokens.id \in lapsed

\* The generations on disk are ordered by commits: only tokens that an older tool
\* wrote have no revision, and the vault's then name them as their parent.
Ordered ==
    \A p \in Places : HasTokens(disk[p]) /\ disk[p].tokens.revision = 0
                        /\ HasTokens(disk["exact"]) /\ p # "exact"
                      => disk["exact"].tokens.parent = disk[p].tokens.id

Findable == IF Ordered THEN current ELSE TokenIds

-----------------------------------------------------------------------------
(* Callers.                                                                 *)

NewUser == [op |-> "none", at |-> "idle", why |-> "none", stage |-> 0,
            view |-> [p \in Places |-> Blank], basis |-> Blank, patch |-> Blank,
            nulls |-> FALSE, client |-> 0, cleared |-> FALSE, cancelled |-> FALSE,
            result |-> 0, seen |-> {}]

LegacyTokens(id) == [NoTokens EXCEPT !.id = id, !.refresh = id]
Committed(id, parent, revision) ==
    [id |-> id, refresh |-> id, revision |-> revision, parent |-> parent, client |-> 1]
Kept(tokens) == [tokens |-> tokens, client |-> 1]

\* What the callers may find: nothing, credentials in one place that an older
\* tool wrote, or what an earlier save committed, with a directory that its
\* writes did not reach.
Seeds ==
    {[p \in Places |-> Blank]}
      \cup {[p \in Places |-> IF p = q THEN Kept(LegacyTokens(1)) ELSE Blank] : q \in Places}
      \cup {[p \in Places |-> CASE p = "exact" -> Kept(Committed(2, 1, 1))
                                [] p = "alias" -> Blank
                                [] p = "directory" -> Kept(tokens)] :
              tokens \in {LegacyTokens(1), Committed(2, 1, 1)}}

StoreInit(seeds, crowd) ==
    /\ disk \in seeds
    /\ hasDirectory \in BOOLEAN
    /\ ~hasDirectory => disk["directory"] = Blank
    /\ locks = [l \in {"refresh", "vault", "directory"} |-> Free]
    /\ users \in {[c \in StoreCallers |-> IF c \in crowd THEN [NewUser EXCEPT !.op = ops[c]]
                                         ELSE NewUser] : ops \in [StoreCallers -> Operations]}
    \* The destination of an import is an entry without a cache directory.
    /\ hasDirectory => \A c \in crowd : users[c].op # "import"
    /\ lapsed = {} /\ issued = 2 /\ crashes = 0
    /\ current = {OnDisk.tokens.id}
    /\ superseded = {} /\ presented = {}

SetUser(c, user) == users' = [users EXCEPT ![c] = user]
Unchanged(more) == UNCHANGED <<hasDirectory, more>>
HistoryKept == UNCHANGED <<current, superseded, presented>>

\* Leaves the call; locks that are held are released first.
Leaving(c, user, result) ==
    [NewUser EXCEPT !.op = user.op, !.result = result, !.seen = IF result = 0 THEN {} ELSE user.seen,
                    !.cancelled = user.cancelled,
                    !.at = IF c \in {locks[l] : l \in DOMAIN locks} THEN "release"
                           ELSE "ended"]
ReadsFor(user, why) ==
    [user EXCEPT !.at = "reading", !.why = why, !.stage = 0, !.view = NewUser.view,
                 !.seen = IF why \in {"header", "transaction"} THEN Findable ELSE @]

\* authorization_header reads first; authorize and vault_clear start with the
\* transaction.
Begin(c) ==
    LET u == users[c] IN
    /\ u.at = "idle" /\ u.op \in {"header", "authorize", "reset", "clear"}
    /\ SetUser(c, IF u.op = "header" THEN ReadsFor(u, "header") ELSE [u EXCEPT !.at = "lock"])
    /\ Unchanged(<<disk, locks, lapsed, issued, crashes>>) /\ HistoryKept

\* What a payload from outside may be: a refreshable one has its registration.
Payload(id) ==
    {[tokens |-> [NoTokens EXCEPT !.id = id, !.refresh = r], client |-> k] :
        r \in {0, id}, k \in {0, 2}} \ {[tokens |-> LegacyTokens(id), client |-> 0]}

\* vault_set validates its payload.
BeginSet(c) ==
    LET u == users[c] IN
    /\ u.at = "idle" /\ u.op = "set" /\ issued < MaxTokens
    /\ issued' = issued + 1
    /\ \E patch \in Payload(issued') : SetUser(c, [u EXCEPT !.at = "lock", !.patch = patch])
    /\ Unchanged(<<disk, locks, lapsed, crashes>>) /\ HistoryKept

\* An import replaces every field, and looks at its destination, the entries in
\* the vault, before it takes a lock.
BeginImport(c) ==
    LET u == users[c] IN
    /\ u.at = "idle" /\ u.op = "import" /\ issued < MaxTokens
    /\ issued' = issued + 1
    /\ \E patch \in Payload(issued') :
         SetUser(c, [u EXCEPT !.at = "lock", !.patch = patch, !.nulls = patch.client = 0,
                             !.view = Slot(disk)])
    /\ Unchanged(<<disk, locks, lapsed, crashes>>) /\ HistoryKept

\* A read goes through the vault, then each file of the directory.
ReadFile(c) ==
    LET u == users[c]
        last == IF hasDirectory THEN 2 ELSE 0
    IN
    /\ u.at = "reading"
    /\ SetUser(c, [u EXCEPT
         !.stage = IF u.stage < last THEN u.stage + 1 ELSE 0,
         !.at = IF u.stage < last THEN "reading" ELSE "decide",
         !.view = CASE u.stage = 0 -> [@ EXCEPT !["exact"] = disk["exact"],
                                                !["alias"] = disk["alias"]]
                    [] u.stage = 1 -> [@ EXCEPT !["directory"].tokens = disk["directory"].tokens]
                    [] u.stage = 2 -> [@ EXCEPT !["directory"].client = disk["directory"].client]])
    /\ Unchanged(<<disk, locks, lapsed, issued, crashes>>) /\ HistoryKept

\* authorization_header with what it has read: use the token or refresh it.
DecideHeader(c) ==
    LET u == users[c]
        found == Select(u.view)
    IN
    /\ u.at = "decide" /\ u.why = "header"
    /\ SetUser(c, IF ~HasTokens(found) THEN Leaving(c, u, 0)
                 ELSE IF Expired(found) THEN [NewUser EXCEPT !.op = u.op, !.at = "lock"]
                 ELSE Leaving(c, u, found.tokens.id))
    /\ Unchanged(<<disk, locks, lapsed, issued, crashes>>) /\ HistoryKept

\* refresh, once it holds the transaction: someone else may have refreshed.
DecideRefresh(c) ==
    LET u == users[c]
        found == Select(u.view)
    IN
    /\ u.at = "decide" /\ u.why = "transaction" /\ u.op = "header"
    /\ SetUser(c, IF ~HasTokens(found) THEN Leaving(c, u, 0)
                 ELSE IF ~Expired(found) THEN Leaving(c, u, found.tokens.id)
                 ELSE IF found.tokens.refresh = 0 \/ found.client = 0 THEN Leaving(c, u, 0)
                 ELSE [u EXCEPT !.at = "request", !.basis = found, !.view = NewUser.view])
    /\ Unchanged(<<disk, locks, lapsed, issued, crashes>>) /\ HistoryKept

\* authorize_with_observer: credentials that still hold are reused.
DecideAuthorize(c) ==
    LET u == users[c]
        found == Select(u.view)
    IN
    /\ u.at = "decide" /\ u.why = "transaction" /\ u.op = "authorize"
    /\ SetUser(c, IF found = Conflict THEN Leaving(c, u, 0)
                 ELSE IF HasTokens(found) /\ ~Expired(found) THEN Leaving(c, u, found.tokens.id)
                 ELSE [u EXCEPT !.at = "register", !.basis = found, !.view = NewUser.view])
    /\ Unchanged(<<disk, locks, lapsed, issued, crashes>>) /\ HistoryKept

\* save_locked compares what it builds on with what is there now.
DecideExpected(c) ==
    LET u == users[c]
        latest == Select(u.view)
    IN
    /\ u.at = "decide" /\ u.why = "expected"
    /\ SetUser(c, IF latest = u.basis THEN [u EXCEPT !.at = "vault_lock", !.view = NewUser.view] ELSE Leaving(c, u, 0))
    /\ Unchanged(<<disk, locks, lapsed, issued, crashes>>) /\ HistoryKept

\* What must not be written: an entry made from an unreadable one, or invalid.
RefusesInvalid(previous, entry) == ~ValidClient(entry)
Refuses(previous, entry) == previous = Conflict \/ ~ValidClient(entry)

\* save_entry up to the first write.
DecideEntry(c) ==
    LET u == users[c]
        previous == Select(u.view)
        entry == Entry(u.patch, u.nulls, previous, u.view)
    IN
    /\ u.at = "decide" /\ u.why = "previous"
    /\ SetUser(c, IF Refuses(previous, entry) THEN Leaving(c, u, 0)
                 ELSE [u EXCEPT !.at = "write_vault", !.patch = entry, !.view = NewUser.view])
    /\ Unchanged(<<disk, locks, lapsed, issued, crashes>>) /\ HistoryKept

\* exchange reads its own pending save back before it waits for the callback.
DecidePending(c) ==
    LET u == users[c]
        found == Select(u.view)
    IN
    /\ u.at = "decide" /\ u.why = "pending"
    /\ SetUser(c, IF found = Conflict THEN Leaving(c, u, 0)
                 ELSE [u EXCEPT !.at = "callback", !.basis = found, !.view = NewUser.view])
    /\ Unchanged(<<disk, locks, lapsed, issued, crashes>>) /\ HistoryKept

-----------------------------------------------------------------------------
(* Locks.                                                                   *)

\* Lock::acquire creates the lock file, which must not exist.
EntersAnyway == TRUE
TransactionFree == locks["refresh"] = Free

\* acquire_locks.  A caller whose future is gone gives the transaction back as
\* soon as it has it.
AcquireTransaction(c) ==
    LET u == users[c] IN
    /\ u.at = "lock" /\ TransactionFree
    /\ locks' = [locks EXCEPT !["refresh"] = c]
    /\ SetUser(c, IF u.cancelled THEN [u EXCEPT !.at = "release"]
                 ELSE IF u.op \in {"header", "authorize"} THEN ReadsFor(u, "transaction")
                 ELSE [u EXCEPT !.at = "vault_lock"])
    /\ Unchanged(<<disk, lapsed, issued, crashes>>) /\ HistoryKept

AcquireVault(c) ==
    LET u == users[c]
        clears == u.op = "clear" \/ (u.op = "reset" /\ ~u.cleared)
    IN
    /\ u.at = "vault_lock" /\ locks["vault"] = Free
    /\ locks' = [locks EXCEPT !["vault"] = c]
    /\ SetUser(c, IF clears THEN [u EXCEPT !.at = "clear_vault"]
                 ELSE IF u.op = "import" THEN [u EXCEPT !.at = "inspect"]
                 ELSE ReadsFor(u, "previous"))
    /\ Unchanged(<<disk, lapsed, issued, crashes>>) /\ HistoryKept

AcquireDirectory(c) ==
    /\ users[c].at = "directory_lock" /\ locks["directory"] = Free
    /\ locks' = [locks EXCEPT !["directory"] = c]
    /\ SetUser(c, [users[c] EXCEPT !.at = "write_tokens"])
    /\ Unchanged(<<disk, lapsed, issued, crashes>>) /\ HistoryKept

\* After 30 seconds of waiting the transaction is busy.
LockBusy(c) ==
    LET lock == [lock |-> "refresh", vault_lock |-> "vault", directory_lock |-> "directory"] IN
    /\ users[c].at \in DOMAIN lock /\ locks[lock[users[c].at]] # Free
    /\ SetUser(c, Leaving(c, users[c], 0))
    /\ Unchanged(<<disk, locks, lapsed, issued, crashes>>) /\ HistoryKept

Release(c) ==
    LET u == users[c] IN
    /\ u.at = "release"
    /\ locks' = [l \in DOMAIN locks |-> IF locks[l] = c THEN Free ELSE locks[l]]
    /\ SetUser(c, [u EXCEPT !.at = "ended"])
    /\ Unchanged(<<disk, lapsed, issued, crashes>>) /\ HistoryKept

-----------------------------------------------------------------------------
(* The network.                                                             *)

\* refresh presents the refresh token.  The issuer grants tokens, with a new
\* refresh token or without, or the request fails.
RequestRefresh(c) ==
    LET u == users[c] IN
    /\ u.at = "request"
    /\ presented' = presented \cup {<<u.basis.tokens.refresh, c>>}
    /\ \/ SetUser(c, Leaving(c, u, 0)) /\ UNCHANGED issued
       \/ /\ issued < MaxTokens /\ issued' = issued + 1
          /\ \E refresh \in {issued', u.basis.tokens.refresh} :
               SetUser(c, ReadsFor([u EXCEPT
                   !.patch = [tokens |-> [NoTokens EXCEPT !.id = issued', !.refresh = refresh],
                              client |-> 0]], "expected"))
    /\ Unchanged(<<disk, locks, lapsed, crashes, current, superseded>>)

\* exchange finds or makes a registration, to which a configured secret may
\* have been added, and saves it with the state of the pending authorization.
Register(c) ==
    LET u == users[c]
        kept == u.basis.client
    IN
    /\ u.at = "register"
    /\ \/ SetUser(c, Leaving(c, u, 0))
       \/ \E client \in IF kept # 0 THEN {kept, 2} ELSE {1} :
            LET pending == IF HasTokens(u.basis) THEN kept ELSE client IN
            SetUser(c, ReadsFor([u EXCEPT !.client = client, !.nulls = pending = 0,
                          !.patch = [tokens |-> NoTokens, client |-> pending]], "expected"))
    /\ Unchanged(<<disk, locks, lapsed, issued, crashes>>) /\ HistoryKept

\* The browser comes back and the code is exchanged for tokens.
Callback(c) ==
    LET u == users[c] IN
    /\ u.at = "callback"
    /\ \/ SetUser(c, Leaving(c, u, 0)) /\ UNCHANGED issued
       \/ /\ issued < MaxTokens /\ issued' = issued + 1
          /\ SetUser(c, ReadsFor([u EXCEPT !.nulls = FALSE,
                 !.patch = [tokens |-> [NoTokens EXCEPT !.id = issued', !.refresh = issued'],
                            client |-> u.client]], "expected"))
    /\ Unchanged(<<disk, locks, lapsed, crashes>>) /\ HistoryKept

-----------------------------------------------------------------------------
(* Writes, each of which replaces a file as a whole.                        *)

\* ImportDestination::commit goes on only if its destination has not changed.
InspectSlot(c) ==
    LET u == users[c]
        slot == Slot(disk)
        entry == Entry(u.patch, u.nulls, FirstEntry(slot), slot)
    IN
    /\ u.at = "inspect"
    /\ SetUser(c, IF slot = u.view THEN [u EXCEPT !.at = "write_vault", !.patch = entry, !.view = NewUser.view]
                 ELSE Leaving(c, u, 0))
    /\ Unchanged(<<disk, locks, lapsed, issued, crashes>>) /\ HistoryKept

\* The users after c has become u and has changed what a read may find.
Informed(c, u) ==
    [d \in StoreCallers |-> LET user == IF d = c THEN u ELSE users[d]
                            IN  [user EXCEPT !.seen = IF @ = {} THEN {} ELSE @ \cup Findable']]

\* save_entry writes the vault first: this is the commit.
WriteVault(c) ==
    LET u == users[c]
        before == OnDisk.tokens
        now == u.patch.tokens
        retired == before.refresh # 0 /\ now.refresh # before.refresh
    IN
    /\ u.at = "write_vault"
    /\ disk' = [disk EXCEPT !["exact"] = u.patch,
                            !["alias"] = IF u.op = "import" THEN Blank ELSE @]
    /\ current' = {now.id}
    /\ superseded' = (IF retired THEN superseded \cup {before.refresh} ELSE superseded) \ {now.refresh}
    /\ users' = Informed(c, [u EXCEPT !.at = IF hasDirectory THEN "directory_lock"
                                             ELSE "finish"])
    /\ Unchanged(<<locks, lapsed, issued, crashes, presented>>)

\* clear_locked takes the server's entries out of the vault.  What the
\* directory holds stays visible until its files are gone, and the owner has
\* given up all of it.
ClearVault(c) ==
    LET ids == {0, disk["directory"].tokens.id} IN
    /\ users[c].at = "clear_vault"
    /\ disk' = [disk EXCEPT !["exact"] = Blank, !["alias"] = Blank]
    /\ current' = ids /\ superseded' = {}
    /\ users' = Informed(c, [users[c] EXCEPT !.at = IF hasDirectory THEN "directory_lock"
                                                    ELSE "finish"])
    /\ Unchanged(<<locks, lapsed, issued, crashes, presented>>)

Clears(u) == u.op = "clear" \/ (u.op = "reset" /\ ~u.cleared)

WriteTokens(c) ==
    LET u == users[c] IN
    /\ u.at = "write_tokens"
    /\ disk' = [disk EXCEPT !["directory"].tokens =
                   IF Clears(u) THEN NoTokens ELSE IF HasTokens(u.patch) THEN u.patch.tokens ELSE @]
    /\ current' = IF Clears(u) THEN {0} ELSE current
    /\ users' = Informed(c, [u EXCEPT !.at = "write_client"])
    /\ Unchanged(<<locks, lapsed, issued, crashes, superseded, presented>>)

\* A registration that the entry does not mention stays in the directory.
WriteClient(c) ==
    LET u == users[c] IN
    /\ u.at = "write_client"
    /\ disk' = [disk EXCEPT !["directory"].client =
                   IF Clears(u) \/ u.nulls THEN 0
                   ELSE IF u.patch.client # 0 THEN u.patch.client ELSE @]
    /\ SetUser(c, [u EXCEPT !.at = "finish"])
    /\ Unchanged(<<locks, lapsed, issued, crashes>>) /\ HistoryKept

\* The write is over: its locks are released, and the operation goes on or
\* ends.  A cancelled operation ends here, not before.
Finish(c) ==
    LET u == users[c]
        pending == u.op \in {"authorize", "reset"} /\ u.patch.tokens.id = u.basis.tokens.id
    IN
    /\ u.at = "finish"
    /\ locks' = [l \in DOMAIN locks |-> IF locks[l] = c /\ l # "refresh" THEN Free
                                        ELSE locks[l]]
    /\ SetUser(c,
         IF u.cancelled THEN Leaving(c, u, 0)
         ELSE IF Clears(u) /\ u.op = "reset"
         THEN [u EXCEPT !.cleared = TRUE, !.at = "register"]
         ELSE IF pending THEN ReadsFor(u, "pending")
         ELSE Leaving(c, u, u.patch.tokens.id))
    /\ Unchanged(<<disk, lapsed, issued, crashes>>) /\ HistoryKept

-----------------------------------------------------------------------------
(* What goes wrong, and what goes on outside.                               *)

\* A write fails: the call ends with an error, its locks are released.
WriteFails(c) ==
    /\ users[c].at \in {"write_vault", "clear_vault", "write_tokens", "write_client"}
    /\ SetUser(c, Leaving(c, users[c], 0))
    /\ Unchanged(<<disk, locks, lapsed, issued, crashes>>) /\ HistoryKept

\* What runs in a blocking thread and holds on to the transaction: the wait for
\* its locks, a save and a clear.
Blocking(u) ==
    \/ u.at \in {"lock", "vault_lock", "write_vault", "clear_vault",
                 "directory_lock", "write_tokens", "write_client", "finish"}
    \/ u.at \in {"reading", "decide"} /\ u.why \in {"expected", "previous"}

\* The future is dropped, by ctrl-c or a timeout; what blocks goes on without it.
Cancel(c) ==
    LET u == users[c] IN
    /\ u.op \in Asynchronous /\ ~u.cancelled
    /\ u.at \notin {"idle", "release", "ended", "crashed"}
    /\ SetUser(c, [(IF Blocking(u) THEN u ELSE Leaving(c, u, 0)) EXCEPT !.cancelled = TRUE])
    /\ Unchanged(<<disk, locks, lapsed, issued, crashes>>) /\ HistoryKept

\* The process dies and leaves its lock files behind.
Crash(c) ==
    /\ crashes < MaxCrashes
    /\ users[c].at \notin {"idle", "ended", "crashed"}
    /\ crashes' = crashes + 1
    /\ SetUser(c, [NewUser EXCEPT !.op = users[c].op, !.at = "crashed"])
    /\ Unchanged(<<disk, locks, lapsed, issued>>) /\ HistoryKept

\* Somebody removes the lock files of a dead process by hand.
CleanUp ==
    \E c \in StoreCallers :
        /\ users[c].at = "crashed" /\ c \in {locks[l] : l \in DOMAIN locks}
        /\ locks' = [l \in DOMAIN locks |-> IF locks[l] = c THEN Free ELSE locks[l]]
        /\ Unchanged(<<disk, users, lapsed, issued, crashes>>) /\ HistoryKept

\* External: tokens expire.
Lapse ==
    /\ \E id \in 1..issued : id \notin lapsed /\ id \in current /\ lapsed' = lapsed \cup {id}
    /\ Unchanged(<<disk, locks, users, issued, crashes>>) /\ HistoryKept

StoreStep(c) ==
    \/ Begin(c) \/ BeginSet(c) \/ BeginImport(c) \/ ReadFile(c) \/ DecideHeader(c) \/ DecideRefresh(c) \/ DecideAuthorize(c)
    \/ DecideExpected(c) \/ DecideEntry(c) \/ DecidePending(c)
    \/ AcquireTransaction(c) \/ AcquireVault(c) \/ AcquireDirectory(c) \/ LockBusy(c)
    \/ RequestRefresh(c) \/ Register(c) \/ Callback(c)
    \/ InspectSlot(c) \/ WriteVault(c) \/ ClearVault(c) \/ WriteTokens(c) \/ WriteClient(c)
    \/ Finish(c) \/ Release(c)

StoreNext ==
    \/ \E c \in StoreCallers : StoreStep(c) \/ WriteFails(c) \/ Cancel(c) \/ Crash(c)
    \/ CleanUp \/ Lapse

\* Every call has ended.
StoreAtRest == \A c \in StoreCallers :
    users[c].op = "none" \/ users[c].at \in {"ended", "crashed"}
      \/ (users[c].at = "idle" /\ issued = MaxTokens)

-----------------------------------------------------------------------------
(* Properties.                                                              *)

\* Whatever has been interrupted, cancelled or lost on the way, files whose
\* generations are ordered never reconcile to one other than the committed one:
\* a reader finds it, or an error (oauth_store.rs, save_entry;
\* oauth_reconcile.rs, select).
CommittedSurvives == Ordered => OnDisk = Conflict \/ OnDisk.tokens.id \in current

\* A caller that is given a token, without holding any lock while it read, got
\* one that was the committed generation at some moment of its read, although
\* its files may have been written in between (oauth.rs, authorization_header).
ReadsAreRegular ==
    \A c \in StoreCallers :
        users[c].op = "header" /\ users[c].result # 0 => users[c].result \in users[c].seen

\* Among ordered generations no caller presents a refresh token whose successor
\* has been committed: the second of two refreshers uses what the first has
\* stored, also when the first was cancelled, failed or died (oauth_protocol.rs,
\* refresh; oauth_reconcile.rs:130, "instead of replaying a refresh token").
NoReplay ==
    [][\A p \in presented' \ presented : Ordered => p[1] \notin superseded]_storeVars

\* oauth_store.rs:233: "Writes the vault first so reconciliation can recover if
\* a secondary store fails."  When nobody is writing, the files reconcile.
ReconciliationRecovers ==
    (\A c \in StoreCallers : users[c].at \in {"idle", "ended"})
      => OnDisk # Conflict /\ OnDisk.tokens.id \in current

\* What is committed is not lost, and is what reads find (oauth_store.rs, load, save_locked).
StoreSafety == CommittedSurvives /\ ReadsAreRegular
=============================================================================
