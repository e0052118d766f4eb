------------------------ MODULE CredentialStoreProofs ------------------------
(***************************************************************************)
(* The stored credentials, for every number of callers and of commits: the *)
(* committed tokens are found or an error is, a reader without locks is    *)
(* given tokens that were current while it read, and a refresh token that  *)
(* a commit has replaced is not presented again.  And how they are         *)
(* obtained, for every configuration and every vault a user can import:    *)
(* what is presented to an issuer is that issuer's.                        *)
(***************************************************************************)
EXTENDS CredentialStore, Authorization, FiniteSetTheorems, TLAPS

USE StoreAssumption

-----------------------------------------------------------------------------
(* The files.                                                              *)

(* Tokens without a revision are nobody's but the older tool's.            *)
Sound(t) ==
  /\ t.id = 0 => t = NoTokens
  /\ t.id = 1 => t = LegacyTokens(1)
  /\ t.revision = 0 => t.id \in {0, 1}

(* What else is on disk is the vault's own entry, or older.                *)
Behind(t, e) == t.id = 0 \/ t = e \/ (t.id # e.id /\ t.revision < e.revision)

FilesInv(d, has) ==
  /\ d \in [Places -> Snapshot]
  /\ \A p \in Places : Sound(d[p].tokens)
  /\ ~has => d["directory"] = Blank
  /\ d["alias"].tokens.revision = 0
  /\ HasTokens(d["exact"]) => \A p \in {"alias", "directory"} : Behind(d[p].tokens, d["exact"].tokens)
  /\ ~HasTokens(d["exact"]) /\ HasTokens(d["alias"]) => ~HasTokens(d["directory"])

(* The entry in the vault is the committed one, and if there is none, what *)
(* is left elsewhere is.                                                   *)
CommitInv(d, committed, replaced) ==
  IF HasTokens(d["exact"])
  THEN d["exact"].tokens.id \in committed /\ d["exact"].tokens.refresh \notin replaced
  ELSE /\ replaced = {}
       /\ (IF HasTokens(d["directory"]) THEN d["directory"].tokens.id ELSE d["alias"].tokens.id) \in committed

OrderedOn(d) ==
  \A p \in Places : HasTokens(d[p]) /\ d[p].tokens.revision = 0 /\ HasTokens(d["exact"]) /\ p # "exact"
                      => d["exact"].tokens.parent = d[p].tokens.id
FindableOn(d, committed) == IF OrderedOn(d) THEN committed ELSE TokenIds

-----------------------------------------------------------------------------
(* The callers.                                                            *)

Reading(u) == u.at \in {"reading", "decide"}
Waiting(u) == u.at \in {"idle", "lock", "release", "ended", "crashed"}
Writing(u) == u.at \in {"directory_lock", "write_tokens", "write_client", "finish"}

(* It holds the transaction.                                               *)
Working(u) == ~Waiting(u) /\ (Reading(u) => u.why # "header")

(* It has new tokens that it has not written yet.                          *)
Unwritten(u) ==
  \/ u.at \in {"lock", "vault_lock", "inspect"}
  \/ Reading(u) /\ u.why \in {"expected", "previous"}

(* A caller alone: which operations come to which place.                   *)
Alone(u) ==
  /\ u \in User
  /\ u.at = "idle" => u.patch = Blank
  /\ Clears(u) => Waiting(u) \/ Writing(u) \/ u.at \in {"vault_lock", "clear_vault"}
  /\ u.at = "clear_vault" => Clears(u)
  /\ u.at = "request" \/ (Reading(u) /\ u.why = "header") => u.op = "header"
  /\ Reading(u) /\ u.why = "transaction" => u.op \in {"header", "authorize"}
  /\ Reading(u) => u.op # "import"
  /\ u.at \in {"register", "callback"} => u.op \in {"authorize", "reset"}
  /\ Reading(u) /\ u.why = "pending" => u.op \in {"authorize", "reset"}
  /\ u.at = "inspect" => u.op = "import"
  /\ u.result # 0 => u.at \in {"release", "ended"}
  /\ u.op = "import" /\ u.at \in {"lock", "vault_lock", "inspect"} => HasTokens(u.patch)
  /\ u.op = "header" =>
       /\ Working(u) => u.seen # {}
       /\ Writing(u) => u.patch.tokens.id \in u.seen
       /\ u.result # 0 => u.result \in u.seen

(* How far a read has come.                                                *)
ReadSoFar(u, has) ==
  u.at = "reading" =>
    /\ u.stage # 0 => has
    /\ u.stage = 0 => u.view = NewUser.view
    /\ u.stage = 1 => u.view["directory"] = Blank
  
(* What is to be written: what is there already, or tokens that are newer. *)
Ready(t, d) ==
  /\ Sound(t)
  /\ \/ Select(d) # Conflict /\ t = Select(d).tokens
     \/ t.id # 0 /\ \A p \in Places : d[p].tokens.id # t.id /\ d[p].tokens.revision < t.revision

(* Who holds the transaction has seen what is there.                       *)
Knows(u, d, has) ==
  /\ Reading(u) /\ u.why # "header" =>
       /\ u.at = "decide" => u.view = d
       /\ u.at = "reading" /\ u.stage # 0 => u.view["exact"] = d["exact"] /\ u.view["alias"] = d["alias"]
       /\ u.at = "reading" /\ u.stage = 2 => u.view["directory"].tokens = d["directory"].tokens
  /\ u.at = "request" => u.basis = Select(d) /\ HasTokens(u.basis)
  /\ u.at = "write_vault" => Ready(u.patch.tokens, d)
  /\ u.at \in {"directory_lock", "write_tokens", "write_client"} => has
  /\ u.at \in {"directory_lock", "write_tokens"} =>
       IF Clears(u) THEN d["exact"] = Blank /\ d["alias"] = Blank
       ELSE HasTokens(u.patch) => d["exact"].tokens = u.patch.tokens

(* A reader, with the transaction or without, has heard of all that it can *)
(* find: what it read is still to be found, or is overtaken.               *)
Overtaken(t, e) ==
  \/ t.id = e.id
  \/ t.revision > 0 /\ t.revision < e.revision
  \/ t.revision = 0 /\ e.parent = t.id

HeardOf(view, t, heard) ==
  /\ Sound(view["alias"].tokens) /\ view["alias"].tokens.revision = 0
  /\ view["exact"].tokens.id \in heard \cup {0}
  /\ ~HasTokens(view["exact"]) => view["alias"].tokens.id \in heard \cup {0}
  /\ t.id \in heard \cup {0} \/ (HasTokens(view["exact"]) /\ Overtaken(t, view["exact"].tokens))

Hears(u, d, findable) ==
  Reading(u) /\ u.why \in {"header", "transaction"} =>
    /\ findable \subseteq u.seen
    /\ u.at = "reading" /\ u.stage = 1 => HeardOf(u.view, d["directory"].tokens, u.seen)
    /\ (u.at = "reading" /\ u.stage = 2) \/ u.at = "decide" => HeardOf(u.view, u.view["directory"].tokens, u.seen)

NotOnDisk(u, d, last) ==
  HasTokens(u.patch) /\ (Unwritten(u) \/ u.at = "write_vault") =>
    /\ u.patch.tokens.id <= last
    /\ Unwritten(u) => u.patch.tokens.id > 2
    /\ Unwritten(u) => \A p \in Places : d[p].tokens.id # u.patch.tokens.id

CallerInv(c, u, d, holder, findable, has, last) ==
  /\ Alone(u) /\ ReadSoFar(u, has)
  /\ Working(u) => holder = c
  /\ Knows(u, d, has) /\ Hears(u, d, findable) /\ NotOnDisk(u, d, last)
  /\ u.op = "import" => ~has

(* No two have the same new tokens.                                        *)
Apart(u, v) ==
  Unwritten(u) /\ (Unwritten(v) \/ v.at = "write_vault") /\ HasTokens(u.patch)
    => u.patch.tokens.id # v.patch.tokens.id

StoreShape ==
  /\ locks \in [{"refresh", "vault", "directory"} -> StoreCallers \cup {Free}]
  /\ hasDirectory \in BOOLEAN /\ DOMAIN users = StoreCallers /\ users = [c \in StoreCallers |-> users[c]]
  /\ lapsed \subseteq TokenIds /\ issued \in TokenIds /\ issued >= 2 /\ crashes \in 0..MaxCrashes
  /\ current \subseteq TokenIds /\ superseded \subseteq TokenIds
  /\ presented \subseteq (TokenIds \X StoreCallers)

StoreInv ==
  /\ StoreShape
  /\ FilesInv(disk, hasDirectory) /\ CommitInv(disk, current, superseded)
  /\ \A p \in Places : disk[p].tokens.id <= issued
  /\ \A c \in StoreCallers : CallerInv(c, users[c], disk, locks["refresh"], FindableOn(disk, current),
                                       hasDirectory, issued)
  /\ \A c, e \in StoreCallers : c # e => Apart(users[c], users[e])
-----------------------------------------------------------------------------
(* What a read selects.                                                    *)

LEMMA StoredValues ==
  /\ NoTokens \in Token /\ Blank \in Snapshot /\ ~HasTokens(Blank)
  /\ Conflict \notin Snapshot /\ ~HasTokens(Conflict) /\ Conflict.tokens = NoTokens
  /\ NoTokens.id = 0 /\ NoTokens.revision = 0
  /\ LegacyTokens(1) \in Token /\ LegacyTokens(1).id = 1 /\ LegacyTokens(1).revision = 0
  /\ LegacyTokens(1).parent = 0
<1>1. 0 \in TokenIds /\ 1 \in TokenIds /\ 2 \in TokenIds
  BY DEF TokenIds
<1>2. NoTokens \in Token
  BY <1>1 DEF NoTokens, Token, ClientIds
<1>3. -1 \notin ClientIds
  BY DEF ClientIds
<1> DEFINE t == LegacyTokens(1)
<1>4. t = [NoTokens EXCEPT !.id = 1, !.refresh = 1]
  BY DEF LegacyTokens
<1> HIDE DEF t
<1>5. t \in Token /\ t.id = 1 /\ t.revision = 0 /\ t.parent = 0
  <2>1. ASSUME NEW n \in Token, NEW m, m = [n EXCEPT !.id = 1, !.refresh = 1]
        PROVE  m \in Token /\ m.id = 1 /\ m.revision = n.revision /\ m.parent = n.parent
    BY <1>1, <2>1 DEF Token
  <2>2. NoTokens.revision = 0 /\ NoTokens.parent = 0
    BY DEF NoTokens
  <2>3. QED
    BY <1>2, <1>4, <2>1, <2>2
<1>6. Blank \in Snapshot
  BY <1>2 DEF Blank, Snapshot, ClientIds
<1>7. Conflict \notin Snapshot
  BY <1>3 DEF Conflict, Snapshot
<1>8. QED
  BY <1>2, <1>5, <1>6, <1>7 DEF HasTokens, NoTokens, Blank, Conflict, t

LEMMA PreferOne ==
  ASSUME NEW x \in Snapshot \cup {Conflict}, NEW y \in Snapshot
  PROVE  /\ Prefer(x, y) \in {x, y, Conflict}
         /\ ~HasTokens(x) \/ ~HasTokens(y) \/ x.tokens.id = y.tokens.id => Prefer(x, y) = x
         /\ x = Conflict => Prefer(x, y) = x
         /\ y.tokens.revision = 0 /\ y.tokens.parent = 0 => Prefer(x, y) \in {x, Conflict}
         /\ HasTokens(x) /\ Overtaken(x.tokens, y.tokens) /\ HasTokens(y) /\ x.tokens.id # y.tokens.id
              => Prefer(x, y) = y
<1>1. Conflict.tokens.id = 0
  BY StoredValues
<1>2. x.tokens.revision \in Nat /\ y.tokens.revision \in Nat
  BY StoredValues DEF Snapshot, Token
<1>3. x = Conflict \/ x \in Snapshot
  OBVIOUS
<1> QED
  BY <1>1, <1>2 DEF Prefer, HasTokens, Overtaken

LEMMA FirstIs ==
  ASSUME NEW view \in [Places -> Snapshot]
  PROVE  /\ HasTokens(view["directory"]) => FirstCandidate(view) = view["directory"]
         /\ ~HasTokens(view["directory"]) /\ HasTokens(view["exact"]) => FirstCandidate(view) = view["exact"]
         /\ ~HasTokens(view["directory"]) /\ ~HasTokens(view["exact"]) /\ HasTokens(view["alias"])
              => FirstCandidate(view) = view["alias"]
         /\ (\A p \in Places : ~HasTokens(view[p])) => ~HasTokens(FirstCandidate(view))
         /\ FirstCandidate(view) \in Snapshot
         /\ FirstCandidate(view) = Blank \/ \E p \in Places : FirstCandidate(view) = view[p]
<1>1. Blank \in Snapshot /\ ~HasTokens(Blank)
  BY StoredValues
<1>2. view["directory"] \in Snapshot /\ view["exact"] \in Snapshot /\ view["alias"] \in Snapshot
  BY DEF Places
<1> DEFINE withTokens == {p \in Places : HasTokens(view[p])}
           withClient == {p \in Places : view[p].client # 0}
<1>3. FirstCandidate(view) = Earliest(view, IF withTokens # {} THEN withTokens ELSE withClient)
  BY DEF FirstCandidate
<1>4. /\ "directory" \in withTokens <=> HasTokens(view["directory"])
      /\ "exact" \in withTokens <=> HasTokens(view["exact"])
      /\ "alias" \in withTokens <=> HasTokens(view["alias"])
      /\ withTokens # {} <=> HasTokens(view["directory"]) \/ HasTokens(view["exact"]) \/ HasTokens(view["alias"])
  BY DEF Places
<1>5. ASSUME NEW S \in SUBSET Places
      PROVE  /\ Earliest(view, S) \in Snapshot
             /\ Earliest(view, S) = Blank \/ \E p \in Places : Earliest(view, S) = view[p]
  BY <1>1, <1>2 DEF Earliest, Places
<1>6. withTokens \in SUBSET Places /\ withClient \in SUBSET Places
  OBVIOUS
<1>7. /\ FirstCandidate(view) \in Snapshot
      /\ FirstCandidate(view) = Blank \/ \E p \in Places : FirstCandidate(view) = view[p]
  BY <1>3, <1>5, <1>6
<1>8. ASSUME NEW S \in SUBSET Places, \A p \in Places : ~HasTokens(view[p])
      PROVE ~HasTokens(Earliest(view, S))
  BY <1>1, <1>8 DEF Earliest, Places
<1> HIDE DEF withTokens, withClient
<1>9. QED
  BY <1>3, <1>4, <1>6, <1>7, <1>8 DEF Earliest, Places

(* Which of three places is preferred, when the alias is the older tool's. *)
LEMMA PreferredIs ==
  ASSUME NEW view \in [Places -> Snapshot],
         view["alias"].tokens \in {NoTokens, LegacyTokens(1)}
  PROVE  /\ Preferred(view) \in Snapshot \cup {Conflict}
         /\ HasTokens(view["directory"]) =>
              Preferred(view) \in {Prefer(view["directory"], view["exact"]), Conflict}
         /\ ~HasTokens(view["directory"]) /\ HasTokens(view["exact"]) => Preferred(view) \in {view["exact"], Conflict}
         /\ ~HasTokens(view["directory"]) /\ ~HasTokens(view["exact"]) /\ HasTokens(view["alias"])
              => Preferred(view) = view["alias"]
         /\ (\A p \in Places : ~HasTokens(view[p])) =>
              Preferred(view) = FirstCandidate(view) /\ Preferred(view) # Conflict
<1> DEFINE f == FirstCandidate(view)
           x == Prefer(f, view["directory"])
           y == Prefer(x, view["exact"])
<1>1. view["directory"] \in Snapshot /\ view["exact"] \in Snapshot /\ view["alias"] \in Snapshot
  BY DEF Places
<1>2. view["alias"].tokens.revision = 0 /\ view["alias"].tokens.parent = 0
  BY StoredValues DEF NoTokens
<1>3. f \in Snapshot
  BY FirstIs
<1>4. x \in {f, view["directory"], Conflict}
  BY <1>1, <1>3, PreferOne
<1>5. x \in Snapshot \cup {Conflict}
  BY <1>1, <1>3, <1>4
<1>6. y \in Snapshot \cup {Conflict}
  BY <1>1, <1>5, PreferOne
<1>7. Preferred(view) = Prefer(y, view["alias"])
  BY DEF Preferred
<1>8. Preferred(view) \in {y, Conflict}
  BY <1>1, <1>2, <1>6, <1>7, PreferOne
<1>9. CASE HasTokens(view["directory"])
  <2>1. f = view["directory"]
    BY <1>9, FirstIs
  <2>2. x = view["directory"]
    BY <1>1, <2>1, PreferOne
  <2>3. QED
    BY <1>6, <1>8, <1>9, <2>2 DEF Places
<1>10. CASE ~HasTokens(view["directory"]) /\ HasTokens(view["exact"])
  <2>1. f = view["exact"]
    BY <1>10, FirstIs
  <2>2. x = view["exact"]
    BY <1>1, <1>10, <2>1, PreferOne
  <2>3. y = view["exact"]
    BY <1>1, <2>2, PreferOne
  <2>4. QED
    BY <1>6, <1>8, <1>10, <2>3 DEF Places
<1>11. CASE ~HasTokens(view["directory"]) /\ ~HasTokens(view["exact"])
  <2>1. x = f
    BY <1>1, <1>3, <1>11, PreferOne
  <2>2. y = f
    BY <1>1, <1>3, <1>11, <2>1, PreferOne
  <2>3. CASE HasTokens(view["alias"])
    <3>1. f = view["alias"]
      BY <1>11, <2>3, FirstIs
    <3>2. Preferred(view) = view["alias"]
      BY <1>1, <1>7, <2>2, <3>1, PreferOne
    <3>3. QED
      BY <1>1, <1>11, <2>3, <3>2 DEF Places
  <2>4. CASE ~HasTokens(view["alias"])
    <3>1. ~HasTokens(f)
      BY <1>11, <2>4, FirstIs DEF Places
    <3>2. Preferred(view) = f
      BY <1>1, <1>3, <1>7, <2>2, <3>1, PreferOne
    <3>3. f # Conflict
      BY <1>3, StoredValues
    <3>4. QED
      BY <1>3, <1>11, <2>4, <3>1, <3>2, <3>3
  <2>5. QED
    BY <2>3, <2>4
<1>12. QED
  BY <1>9, <1>10, <1>11

(* What is selected has the tokens of what is preferred, or is an error.   *)
LEMMA SelectIs ==
  ASSUME NEW view \in [Places -> Snapshot], Preferred(view) \in Snapshot \cup {Conflict}
  PROVE  /\ Select(view) \in Snapshot \cup {Conflict}
         /\ Select(view) # Conflict => /\ Preferred(view) # Conflict
                                       /\ Select(view).tokens = Preferred(view).tokens
<1> DEFINE first == Preferred(view)
           peers == {p \in Places : view[p].tokens.id = first.tokens.id}
           clients == ({view[p].client : p \in peers} \cup {first.client}) \ {0}
           merged == IF HasTokens(first) /\ clients # {}
                     THEN [first EXCEPT !.client = CHOOSE k \in clients : TRUE] ELSE first
<1>1. Select(view) = IF \/ first = Conflict \/ (HasTokens(first) /\ \E k, l \in clients : k # l)
                        \/ ~ValidClient(merged)
                     THEN Conflict ELSE merged
  BY DEF Select
<1>2. ASSUME first \in Snapshot PROVE merged \in Snapshot /\ merged.tokens = first.tokens
  <2>1. clients \subseteq ClientIds
    BY <1>2 DEF Snapshot
  <2>2. clients # {} => (CHOOSE k \in clients : TRUE) \in ClientIds
    BY <2>1
  <2> HIDE DEF clients
  <2> DEFINE k == CHOOSE k \in clients : TRUE
  <2>3. CASE clients # {}
    <3>1. k \in ClientIds
      BY <2>2, <2>3
    <3>2. merged \in {first, [first EXCEPT !.client = k]}
      OBVIOUS
    <3> HIDE DEF k, merged
    <3>3. QED
      BY <1>2, <3>1, <3>2 DEF Snapshot
  <2>4. CASE clients = {}
    BY <1>2, <2>4
  <2>5. QED
    BY <2>3, <2>4
<1> HIDE DEF first, merged, clients
<1>3. CASE first = Conflict
  BY <1>1, <1>3
<1>4. CASE first \in Snapshot /\ first # Conflict
  BY <1>1, <1>2, <1>4 DEF first
<1>5. QED
  BY <1>3, <1>4 DEF first
(* A reader that has heard of what it read is given what it has heard of.  *)
LEMMA SelectHeard ==
  ASSUME NEW view \in [Places -> Snapshot], NEW heard, HeardOf(view, view["directory"].tokens, heard)
  PROVE  Select(view).tokens.id \in heard \cup {0}
<1> DEFINE e == view["exact"]
           t == view["directory"]
           a == view["alias"]
<1>1. e \in Snapshot /\ t \in Snapshot /\ a \in Snapshot
  BY DEF Places
<1>2. a.tokens \in {NoTokens, LegacyTokens(1)}
  BY DEF HeardOf, Sound
<1>3. e.tokens.id \in heard \cup {0}
  BY DEF HeardOf
<1>4. Preferred(view) \in Snapshot \cup {Conflict}
  BY <1>2, PreferredIs
<1>5. Conflict.tokens.id = 0
  BY StoredValues
<1>6. Preferred(view).tokens.id \in heard \cup {0}
  <2>1. CASE HasTokens(t)
    <3>1. Preferred(view) \in {Prefer(t, e), Conflict}
      BY <1>2, <2>1, PreferredIs
    <3>2. Prefer(t, e) \in {t, e, Conflict}
      BY <1>1, PreferOne
    <3>3. CASE t.tokens.id \in heard \cup {0}
      BY <1>3, <1>5, <3>1, <3>2, <3>3
    <3>4. CASE t.tokens.id \notin heard \cup {0}
      <4>1. HasTokens(e) /\ Overtaken(t.tokens, e.tokens)
        BY <3>4 DEF HeardOf
      <4>2. t.tokens.id # e.tokens.id
        BY <1>3, <3>4
      <4>3. Prefer(t, e) = e
        BY <1>1, <2>1, <4>1, <4>2, PreferOne
      <4>4. QED
        BY <1>3, <1>5, <3>1, <4>3
    <3>5. QED
      BY <3>3, <3>4
  <2>2. CASE ~HasTokens(t) /\ HasTokens(e)
    <3>1. Preferred(view) \in {e, Conflict}
      BY <1>2, <2>2, PreferredIs
    <3>2. QED
      BY <1>3, <1>5, <3>1
  <2>3. CASE ~HasTokens(t) /\ ~HasTokens(e) /\ HasTokens(a)
    <3>1. Preferred(view) = a
      BY <1>2, <2>3, PreferredIs
    <3>2. a.tokens.id \in heard \cup {0}
      BY <2>3 DEF HeardOf
    <3>3. QED
      BY <3>1, <3>2
  <2>4. CASE ~HasTokens(t) /\ ~HasTokens(e) /\ ~HasTokens(a)
    <3>1. \A p \in Places : ~HasTokens(view[p])
      BY <2>4 DEF Places
    <3>2. ~HasTokens(Preferred(view))
      BY <1>2, <3>1, PreferredIs, FirstIs
    <3>3. QED
      BY <3>2 DEF HasTokens
  <2>5. QED
    BY <2>1, <2>2, <2>3, <2>4
<1>7. QED
  BY <1>4, <1>5, <1>6, SelectIs

(* What the files are reconciled to, unless it is an error.                *)
LEMMA FilesSelect ==
  ASSUME NEW has, NEW d, FilesInv(d, has)
  PROVE  /\ Select(d) \in Snapshot \cup {Conflict}
         /\ Select(d) # Conflict =>
              /\ \E p \in Places : Select(d).tokens = d[p].tokens
              /\ ~HasTokens(Select(d)) => \A p \in Places : ~HasTokens(d[p])
              /\ ~HasTokens(d["exact"]) =>
                   Select(d).tokens = IF HasTokens(d["directory"]) THEN d["directory"].tokens ELSE d["alias"].tokens
              /\ HasTokens(d["exact"]) =>
                   \/ Select(d).tokens = d["exact"].tokens
                   \/ HasTokens(d["directory"]) /\ Select(d).tokens = d["directory"].tokens
              /\ HasTokens(d["exact"]) /\ OrderedOn(d) => Select(d).tokens = d["exact"].tokens
<1> DEFINE e == d["exact"]
           t == d["directory"]
           a == d["alias"]
           x == Preferred(d)
<1>1. d \in [Places -> Snapshot] /\ e \in Snapshot /\ t \in Snapshot /\ a \in Snapshot
  BY DEF FilesInv, Places
<1>2. a.tokens \in {NoTokens, LegacyTokens(1)}
  BY DEF FilesInv, Sound, Places
<1>3. \A p \in Places : d[p].tokens.id = 0 => d[p].tokens = NoTokens
  BY DEF FilesInv, Sound
<1>4. x \in Snapshot \cup {Conflict}
  BY <1>1, <1>2, PreferredIs
<1>5. SUFFICES ASSUME x # Conflict
               PROVE  /\ \E p \in Places : x.tokens = d[p].tokens
                      /\ ~HasTokens(x) => \A p \in Places : ~HasTokens(d[p])
                      /\ ~HasTokens(e) => x.tokens = IF HasTokens(t) THEN t.tokens ELSE a.tokens
                      /\ HasTokens(e) => x.tokens = e.tokens \/ (HasTokens(t) /\ x.tokens = t.tokens)
                      /\ HasTokens(e) /\ OrderedOn(d) => x.tokens = e.tokens
  BY <1>1, <1>4, SelectIs DEF HasTokens
<1>6. CASE HasTokens(t)
  <2>1. x = Prefer(t, e)
    BY <1>1, <1>2, <1>5, <1>6, PreferredIs
  <2>2. x \in {t, e}
    BY <1>1, <1>5, <2>1, PreferOne
  <2>3. CASE ~HasTokens(e)
    <3>1. x = t
      BY <1>1, <2>1, <2>3, PreferOne
    <3>2. QED
      BY <1>6, <2>3, <3>1 DEF Places
  <2>4. CASE HasTokens(e)
    <3>1. HasTokens(x)
      BY <1>6, <2>2, <2>4
    <3>2. ASSUME OrderedOn(d) PROVE x.tokens = e.tokens
      <4>1. Behind(t.tokens, e.tokens)
        BY <2>4 DEF FilesInv
      <4>2. CASE t.tokens = e.tokens
        BY <2>2, <4>2
      <4>3. CASE t.tokens.id # e.tokens.id /\ t.tokens.revision < e.tokens.revision
        <5>1. t.tokens.revision = 0 => e.tokens.parent = t.tokens.id
          BY <1>6, <2>4, <3>2 DEF OrderedOn, Places
        <5>2. t.tokens.revision \in Nat
          BY <1>1 DEF Snapshot, Token
        <5>3. Overtaken(t.tokens, e.tokens)
          BY <4>3, <5>1, <5>2 DEF Overtaken
        <5>4. x = e
          BY <1>1, <1>6, <2>1, <2>4, <4>3, <5>3, PreferOne
        <5>5. QED
          BY <5>4
      <4>4. QED
        BY <1>6, <4>1, <4>2, <4>3 DEF Behind, HasTokens
    <3>3. QED
      BY <1>6, <2>2, <2>4, <3>1, <3>2 DEF Places
  <2>5. QED
    BY <2>3, <2>4
<1>7. CASE ~HasTokens(t) /\ HasTokens(e)
  <2>1. x = e
    BY <1>1, <1>2, <1>5, <1>7, PreferredIs
  <2>2. QED
    BY <1>7, <2>1 DEF Places
<1>8. CASE ~HasTokens(t) /\ ~HasTokens(e) /\ HasTokens(a)
  <2>1. x = a
    BY <1>1, <1>2, <1>8, PreferredIs
  <2>2. QED
    BY <1>8, <2>1 DEF Places
<1>9. CASE ~HasTokens(t) /\ ~HasTokens(e) /\ ~HasTokens(a)
  <2>1. \A p \in Places : ~HasTokens(d[p])
    BY <1>9 DEF Places
  <2>2. x = FirstCandidate(d)
    BY <1>1, <1>2, <2>1, PreferredIs
  <2>3. x = Blank \/ \E p \in Places : x = d[p]
    BY <1>1, <2>2, FirstIs
  <2>4. x.tokens = NoTokens
    BY <1>3, <2>1, <2>3 DEF HasTokens, Blank
  <2>5. \A p \in Places : d[p].tokens = NoTokens
    BY <1>3, <2>1 DEF HasTokens
  <2>6. QED
    BY <1>9, <2>1, <2>4, <2>5 DEF Places
<1>10. QED
  BY <1>6, <1>7, <1>8, <1>9

(* What is selected can be found, and its refresh token has not been       *)
(* replaced.                                                               *)
LEMMA SelectFound ==
  ASSUME NEW has, NEW d, NEW committed, NEW replaced, FilesInv(d, has), CommitInv(d, committed, replaced),
         OrderedOn(d), Select(d) # Conflict
  PROVE  Select(d).tokens.id \in committed /\ Select(d).tokens.refresh \notin replaced
<1>1. CASE HasTokens(d["exact"])
  BY <1>1, FilesSelect DEF CommitInv
<1>2. CASE ~HasTokens(d["exact"])
  BY <1>2, FilesSelect DEF CommitInv
<1>3. QED
  BY <1>1, <1>2

(* The committed tokens can be found, and so can what is left without them.*)
LEMMA FilesFound ==
  ASSUME NEW has, NEW d, NEW committed, NEW replaced, FilesInv(d, has), CommitInv(d, committed, replaced)
  PROVE  /\ HasTokens(d["exact"]) => d["exact"].tokens.id \in FindableOn(d, committed)
         /\ ~HasTokens(d["exact"]) => d["alias"].tokens.id \in FindableOn(d, committed) \cup {0}
         /\ ~HasTokens(d["exact"]) => d["directory"].tokens.id \in FindableOn(d, committed) \cup {0}
         /\ FindableOn(d, committed) # {}
         /\ HasTokens(d["exact"]) /\ OrderedOn(d) /\ HasTokens(d["directory"])
              => Overtaken(d["directory"].tokens, d["exact"].tokens)
<1>1. \A p \in Places : d[p].tokens.id \in TokenIds /\ d[p].tokens.revision \in Nat
  BY DEF FilesInv, Snapshot, Token
<1>2. "exact" \in Places /\ "alias" \in Places /\ "directory" \in Places
  BY DEF Places
<1>3. FindableOn(d, committed) # {}
  BY <1>1, <1>2 DEF FindableOn, CommitInv
<1>4. ASSUME HasTokens(d["exact"]), OrderedOn(d), HasTokens(d["directory"])
      PROVE  Overtaken(d["directory"].tokens, d["exact"].tokens)
  <2>1. Behind(d["directory"].tokens, d["exact"].tokens)
    BY <1>4 DEF FilesInv
  <2>2. d["directory"].tokens.revision = 0 => d["exact"].tokens.parent = d["directory"].tokens.id
    BY <1>2, <1>4 DEF OrderedOn
  <2>3. QED
    BY <1>1, <1>2, <1>4, <2>1, <2>2 DEF Behind, Overtaken, HasTokens
<1>5. QED
  BY <1>1, <1>2, <1>3, <1>4 DEF FindableOn, CommitInv, FilesInv, HasTokens


-----------------------------------------------------------------------------
(* What is written.                                                        *)

LEMMA StampedIs ==
  ASSUME NEW view \in [Places -> Snapshot], NEW t \in Token, NEW client \in ClientIds, NEW previous \in Snapshot
  PROVE  /\ Stamped(t, client, previous, view) \in Token
         /\ Stamped(t, client, previous, view).id = t.id
         /\ \A p \in Places : view[p].tokens.revision < Stamped(t, client, previous, view).revision
<1> DEFINE revisions == {view[p].tokens.revision : p \in Places}
           highest == CHOOSE r \in revisions : \A s \in revisions : s <= r
           x == Stamped(t, client, previous, view)
<1>1. /\ view["exact"].tokens.revision \in Nat /\ view["alias"].tokens.revision \in Nat
      /\ view["directory"].tokens.revision \in Nat
  BY DEF Places, Snapshot, Token
<1>2. revisions = {view["exact"].tokens.revision, view["alias"].tokens.revision, view["directory"].tokens.revision}
  BY DEF Places
<1>3. \E r \in revisions : \A s \in revisions : s <= r
  <2>1. ASSUME NEW a \in Nat, NEW b \in Nat, NEW c \in Nat
        PROVE  \E r \in {a, b, c} : \A s \in {a, b, c} : s <= r
    BY <2>1
  <2> DEFINE a == view["exact"].tokens.revision
             b == view["alias"].tokens.revision
             c == view["directory"].tokens.revision
  <2>2. a \in Nat /\ b \in Nat /\ c \in Nat /\ revisions = {a, b, c}
    BY <1>1, <1>2
  <2> HIDE DEF a, b, c, revisions
  <2>3. \E r \in {a, b, c} : \A s \in {a, b, c} : s <= r
    BY <2>1, <2>2
  <2>4. QED
    BY <2>2, <2>3
<1>4. highest \in revisions /\ \A s \in revisions : s <= highest
  BY <1>3
<1>5. highest \in Nat
  BY <1>1, <1>2, <1>4
<1>6. \A p \in Places : view[p].tokens.revision <= highest
  BY <1>4
<1>7. x = [t EXCEPT !.revision = highest + 1, !.parent = previous.tokens.id, !.client = client]
  BY DEF Stamped
<1>8. previous.tokens.id \in TokenIds
  BY DEF Snapshot, Token
<1> HIDE DEF highest, x
<1>9. x \in Token /\ x.id = t.id /\ x.revision = highest + 1
  <2>1. ASSUME NEW h \in Nat, NEW q \in TokenIds, NEW y,
               y = [t EXCEPT !.revision = h + 1, !.parent = q, !.client = client]
        PROVE  y \in Token /\ y.id = t.id /\ y.revision = h + 1
    <3>1. h + 1 \in Nat
      OBVIOUS
    <3>2. PICK m \in Nat : m = h + 1
      BY <3>1
    <3>3. y = [t EXCEPT !.revision = m, !.parent = q, !.client = client]
      BY <2>1, <3>2
    <3>4. y \in Token /\ y.id = t.id /\ y.revision = m
      BY <3>3 DEF Token
    <3>5. QED
      BY <3>2, <3>4
  <2>2. QED
    BY <1>5, <1>7, <1>8, <2>1
<1>10. \A p \in Places : view[p].tokens.revision < x.revision
  <2>1. \A p \in Places : view[p].tokens.revision \in Nat
    BY DEF Snapshot, Token
  <2>2. QED
    BY <1>5, <1>6, <1>9, <2>1
<1>11. QED
  BY <1>9, <1>10 DEF x

(* An entry made of new tokens, or of those that are there, can be written.*)
LEMMA EntryReady ==
  ASSUME NEW has, NEW d, FilesInv(d, has), NEW patch \in Snapshot, NEW nulls \in BOOLEAN, NEW previous \in Snapshot,
         HasTokens(patch) => patch.tokens.id > 2 /\ \A p \in Places : d[p].tokens.id # patch.tokens.id,
         ~HasTokens(patch) => Select(d) # Conflict /\ previous = Select(d)
  PROVE  LET entry == Entry(patch, nulls, previous, d) IN
         /\ entry \in Snapshot /\ Ready(entry.tokens, d)
         /\ entry.tokens.id = IF HasTokens(patch) THEN patch.tokens.id ELSE Select(d).tokens.id
<1> DEFINE entry == Entry(patch, nulls, previous, d)
           k == IF nulls THEN 0 ELSE IF patch.client # 0 THEN patch.client ELSE previous.client
           x == Stamped(patch.tokens, k, previous, d)
<1>1. d \in [Places -> Snapshot]
  BY DEF FilesInv
<1>2. entry = [client |-> k, tokens |-> IF HasTokens(patch) THEN x ELSE previous.tokens]
  BY DEF Entry
<1>3. k \in ClientIds
  BY DEF Snapshot, ClientIds
<1>4. patch.tokens \in Token /\ previous.tokens \in Token /\ patch.tokens.id \in Nat
  BY DEF Snapshot, Token, TokenIds
<1> HIDE DEF k
<1>5. x \in Token /\ x.id = patch.tokens.id /\ \A p \in Places : d[p].tokens.revision < x.revision
  BY <1>1, <1>3, <1>4, StampedIs
<1> HIDE DEF x
<1>6. entry \in Snapshot
  BY <1>2, <1>3, <1>4, <1>5 DEF Snapshot
<1>7. CASE HasTokens(patch)
  <2>1. entry.tokens = x
    BY <1>2, <1>7
  <2>2. x.revision # 0
    <3>1. "exact" \in Places /\ d["exact"].tokens.revision \in Nat
      BY <1>1 DEF Places, Snapshot, Token
    <3>2. d["exact"].tokens.revision < x.revision /\ x.revision \in Nat
      BY <1>5, <3>1 DEF Token
    <3>3. QED
      BY <3>1, <3>2
  <2>3. Sound(x) /\ x.id # 0
    BY <1>4, <1>5, <1>7, <2>2 DEF Sound
  <2>4. Ready(x, d)
    BY <1>5, <1>7, <2>3 DEF Ready
  <2>5. QED
    BY <1>5, <1>6, <1>7, <2>1, <2>4
<1>8. CASE ~HasTokens(patch)
  <2>1. entry.tokens = Select(d).tokens
    BY <1>2, <1>8
  <2>2. Sound(Select(d).tokens)
    BY <1>8, FilesSelect DEF FilesInv
  <2>3. Ready(entry.tokens, d)
    BY <1>8, <2>1, <2>2 DEF Ready
  <2>4. QED
    BY <1>6, <1>8, <2>1, <2>3
<1>9. QED
  BY <1>7, <1>8

LEMMA SlotIsAll ==
  ASSUME NEW d, FilesInv(d, FALSE)
  PROVE  Slot(d) = d
  BY DEF Slot, FilesInv

(* The commit: what the vault held before is replaced.                     *)
LEMMA VaultWritten ==
  ASSUME NEW has, NEW d, NEW committed, NEW replaced, NEW patch \in Snapshot, NEW alias \in {d["alias"], Blank},
         NEW gone, FilesInv(d, has), CommitInv(d, committed, replaced), Ready(patch.tokens, d),
         gone = {} \/ (gone = {Select(d).tokens.refresh} /\ Select(d).tokens.refresh # 0)
  PROVE  LET e == [d EXCEPT !["exact"] = patch, !["alias"] = alias] IN
         /\ FilesInv(e, has)
         /\ CommitInv(e, {patch.tokens.id}, (replaced \cup gone) \ {patch.tokens.refresh})
<1> DEFINE t == patch.tokens
<1>1. PICK e : e = [d EXCEPT !["exact"] = patch, !["alias"] = alias]
  OBVIOUS
<1>2. d \in [Places -> Snapshot] /\ "exact" \in Places /\ "alias" \in Places /\ "directory" \in Places
  BY DEF FilesInv, Places
<1>3. alias \in Snapshot /\ (alias = d["alias"] \/ alias.tokens = NoTokens)
  BY <1>2, StoredValues DEF Blank
<1>4. /\ e \in [Places -> Snapshot] /\ e["exact"] = patch /\ e["alias"] = alias
      /\ e["directory"] = d["directory"]
  BY <1>1, <1>2, <1>3 DEF Places
<1>5. \A p \in Places : Sound(d[p].tokens) /\ d[p].tokens \in Token
  BY <1>2 DEF FilesInv, Snapshot
<1>6. Sound(t) /\ t \in Token
  BY DEF Ready, Snapshot
<1>7. NoTokens.id = 0 /\ NoTokens.revision = 0 /\ NoTokens.refresh = 0 /\ Sound(NoTokens)
  BY DEF NoTokens, Sound
<1>8. Sound(alias.tokens) /\ alias.tokens.revision = 0
  BY <1>2, <1>3, <1>5, <1>7 DEF FilesInv
<1>9. ASSUME ~HasTokens(patch)
      PROVE  /\ Select(d) # Conflict /\ ~HasTokens(Select(d))
             /\ \A p \in Places : ~HasTokens(d[p]) /\ replaced = {}
  <2>1. Select(d) # Conflict /\ t = Select(d).tokens
    BY <1>9 DEF Ready, HasTokens
  <2>2. ~HasTokens(Select(d))
    BY <1>9, <2>1 DEF HasTokens
  <2>3. \A p \in Places : ~HasTokens(d[p])
    BY <2>1, <2>2, FilesSelect
  <2>4. replaced = {}
    BY <1>2, <2>3 DEF CommitInv
  <2>5. QED
    BY <2>1, <2>2, <2>3, <2>4
<1>10. ASSUME HasTokens(patch) PROVE Behind(d["alias"].tokens, t) /\ Behind(d["directory"].tokens, t)
  <2>1. CASE \A p \in Places : d[p].tokens.id # t.id /\ d[p].tokens.revision < t.revision
    BY <1>2, <2>1 DEF Behind
  <2>2. CASE Select(d) # Conflict /\ t = Select(d).tokens
    <3>1. CASE HasTokens(d["exact"]) /\ t = d["exact"].tokens
      BY <3>1 DEF FilesInv
    <3>2. CASE HasTokens(d["directory"]) /\ t = d["directory"].tokens
      <4>1. d["alias"].tokens.id \in {0, 1} /\ d["alias"].tokens.revision = 0
        BY <1>2, <1>5 DEF FilesInv, Sound
      <4>2. t.revision = 0 => t.id = 1
        BY <1>6, <1>10 DEF Sound, HasTokens
      <4>3. CASE t.id = 1
        <5>1. d["alias"].tokens.id = 1 => d["alias"].tokens = t
          BY <1>2, <1>5, <1>6, <4>3 DEF Sound
        <5>2. QED
          BY <3>2, <4>1, <5>1 DEF Behind
      <4>4. CASE t.id # 1
        <5>1. t.revision \in Nat /\ t.revision # 0
          BY <1>6, <4>2, <4>4 DEF Token
        <5>2. QED
          BY <3>2, <4>1, <4>4, <5>1 DEF Behind
      <4>5. QED
        BY <4>3, <4>4
    <3>3. CASE ~HasTokens(d["exact"]) /\ ~HasTokens(d["directory"])
      <4>1. t = d["alias"].tokens
        BY <2>2, <3>3, FilesSelect
      <4>2. QED
        BY <3>3, <4>1 DEF Behind, HasTokens
    <3>4. CASE ~HasTokens(d["exact"]) /\ HasTokens(d["directory"])
      <4>1. t = d["directory"].tokens
        BY <2>2, <3>4, FilesSelect
      <4>2. QED
        BY <3>2, <3>4, <4>1
    <3>5. QED
      BY <2>2, <3>1, <3>2, <3>3, <3>4, FilesSelect
  <2>3. QED
    BY <2>1, <2>2 DEF Ready
<1>11. FilesInv(e, has)
  <2>1. \A p \in Places : Sound(e[p].tokens)
    BY <1>2, <1>4, <1>5, <1>6, <1>8 DEF Places
  <2>2. HasTokens(patch) => Behind(alias.tokens, t) /\ Behind(d["directory"].tokens, t)
    BY <1>3, <1>7, <1>10 DEF Behind
  <2>3. ~HasTokens(patch) => ~HasTokens(d["directory"])
    BY <1>2, <1>9
  <2>4. ~has => e["directory"] = Blank
    BY <1>4 DEF FilesInv
  <2>5. QED
    BY <1>4, <1>8, <2>1, <2>2, <2>3, <2>4 DEF FilesInv
<1>12. CommitInv(e, {t.id}, (replaced \cup gone) \ {t.refresh})
  <2>1. CASE HasTokens(patch)
    BY <1>4, <2>1 DEF CommitInv
  <2>2. CASE ~HasTokens(patch)
    <3>1. Select(d).tokens = NoTokens /\ t = NoTokens
      BY <1>6, <1>9, <2>2 DEF Ready, Sound, HasTokens
    <3>2. gone = {} /\ replaced = {}
      BY <1>2, <1>7, <1>9, <2>2, <3>1
    <3>3. ~HasTokens(e["directory"]) /\ e["alias"].tokens.id = 0
      BY <1>2, <1>3, <1>4, <1>7, <1>9, <2>2 DEF HasTokens
    <3>4. QED
      BY <1>4, <1>7, <2>2, <3>1, <3>2, <3>3 DEF CommitInv
  <2>3. QED
    BY <2>1, <2>2
<1>13. QED
  BY <1>1, <1>11, <1>12

(* The vault is emptied, the directory is still there.                     *)
LEMMA VaultCleared ==
  ASSUME NEW has, NEW d, FilesInv(d, has)
  PROVE  LET e == [d EXCEPT !["exact"] = Blank, !["alias"] = Blank] IN
         FilesInv(e, has) /\ CommitInv(e, {0, d["directory"].tokens.id}, {})
<1>1. PICK e : e = [d EXCEPT !["exact"] = Blank, !["alias"] = Blank]
  OBVIOUS
<1>2. d \in [Places -> Snapshot] /\ Blank \in Snapshot /\ ~HasTokens(Blank) /\ Blank.tokens = NoTokens
  BY StoredValues DEF FilesInv, Blank
<1>3. e \in [Places -> Snapshot] /\ e["exact"] = Blank /\ e["alias"] = Blank /\ e["directory"] = d["directory"]
  BY <1>1, <1>2 DEF Places
<1>4. NoTokens.id = 0 /\ NoTokens.revision = 0 /\ Sound(NoTokens)
  BY DEF NoTokens, Sound
<1>5. \A p \in Places : Sound(e[p].tokens)
  BY <1>2, <1>3, <1>4 DEF FilesInv, Places
<1>6. FilesInv(e, has)
  BY <1>2, <1>3, <1>4, <1>5 DEF FilesInv
<1>7. CommitInv(e, {0, d["directory"].tokens.id}, {})
  BY <1>2, <1>3, <1>4 DEF CommitInv
<1>8. QED
  BY <1>1, <1>6, <1>7

(* The tokens of the directory follow those of the vault.                  *)
LEMMA DirectoryWritten ==
  ASSUME NEW d, NEW committed, NEW replaced, NEW t, FilesInv(d, TRUE), CommitInv(d, committed, replaced),
         \/ t = d["exact"].tokens /\ HasTokens(d["exact"])
         \/ t = d["directory"].tokens
         \/ t = NoTokens /\ ~HasTokens(d["exact"]) /\ ~HasTokens(d["alias"])
  PROVE  LET e == [d EXCEPT !["directory"].tokens = t] IN
         /\ FilesInv(e, TRUE)
         /\ t = d["directory"].tokens \/ HasTokens(d["exact"]) => CommitInv(e, committed, replaced)
         /\ t = NoTokens /\ ~HasTokens(d["exact"]) /\ ~HasTokens(d["alias"]) => CommitInv(e, {0}, replaced)
<1>1. PICK e : e = [d EXCEPT !["directory"].tokens = t]
  OBVIOUS
<1>2. d \in [Places -> Snapshot] /\ "exact" \in Places /\ "directory" \in Places /\ "alias" \in Places
  BY DEF FilesInv, Places
<1>3. t \in Token /\ Sound(t)
  <2>1. Sound(NoTokens)
    BY DEF NoTokens, Sound
  <2>2. QED
    BY <1>2, <2>1, StoredValues DEF FilesInv, Snapshot
<1>4. /\ e \in [Places -> Snapshot] /\ e["exact"] = d["exact"] /\ e["alias"] = d["alias"]
      /\ e["directory"].tokens = t
  BY <1>1, <1>2, <1>3 DEF Places, Snapshot
<1>5. NoTokens.id = 0
  BY DEF NoTokens
<1>6. \A p \in Places : Sound(e[p].tokens)
  BY <1>2, <1>3, <1>4 DEF FilesInv, Places
<1>7. HasTokens(d["exact"]) => Behind(t, d["exact"].tokens)
  BY <1>5 DEF FilesInv, Behind
<1>8. ~HasTokens(d["exact"]) /\ HasTokens(d["alias"]) => t.id = 0
  BY <1>5 DEF FilesInv, HasTokens
<1>9. FilesInv(e, TRUE)
  BY <1>4, <1>6, <1>7, <1>8 DEF FilesInv, HasTokens
<1>10. t = d["directory"].tokens \/ HasTokens(d["exact"]) => CommitInv(e, committed, replaced)
  BY <1>3, <1>4, <1>5 DEF CommitInv, HasTokens
<1>11. t = NoTokens /\ ~HasTokens(d["exact"]) /\ ~HasTokens(d["alias"]) => CommitInv(e, {0}, replaced)
  BY <1>4, <1>5 DEF CommitInv, HasTokens
<1>12. QED
  BY <1>1, <1>9, <1>10, <1>11

-----------------------------------------------------------------------------
(* One caller moves.                                                       *)

LEMMA NewUserIs ==
  /\ NewUser \in User /\ NewUser.patch = Blank /\ ~NewUser.cleared
  /\ NewUser.view \in [Places -> Snapshot] /\ \A p \in Places : NewUser.view[p] = Blank
<1>1. [p \in Places |-> Blank] \in [Places -> Snapshot]
  BY StoredValues
<1>2. 0 \in TokenIds /\ 0 \in ClientIds /\ {} \in SUBSET TokenIds /\ 0 \in 0..2 /\ Blank \in Snapshot
  BY StoredValues DEF TokenIds, ClientIds
<1>3. QED
  BY <1>1, <1>2 DEF NewUser, User, Operations

LEMMA OtherLocks ==
  ASSUME NEW e, NEW u \in User, NEW d, NEW h, NEW g, NEW f, NEW has, NEW n \in Nat, NEW m \in Nat, n <= m,
         h = e => g = e, CallerInv(e, u, d, h, f, has, n)
  PROVE  CallerInv(e, u, d, g, f, has, m)
<1>1. u.patch.tokens.id \in Nat
  BY DEF User, Snapshot, Token, TokenIds
<1>2. NotOnDisk(u, d, m)
  BY <1>1 DEF CallerInv, NotOnDisk
<1>3. QED
  BY <1>2 DEF CallerInv

(* The caller has no new tokens, or those it had.                          *)
SameTokens(u, y, d) ==
  HasTokens(y.patch) =>
    /\ Unwritten(y) => Unwritten(u) /\ y.patch.tokens.id = u.patch.tokens.id
    /\ y.at = "write_vault" => \/ (Unwritten(u) \/ u.at = "write_vault") /\ y.patch.tokens.id = u.patch.tokens.id
                               \/ \E p \in Places : d[p].tokens.id = y.patch.tokens.id

LEMMA StaysApart ==
  ASSUME NEW u, NEW y, NEW v, NEW d, NEW n, SameTokens(u, y, d), Apart(u, v), Apart(v, u), NotOnDisk(v, d, n)
  PROVE  Apart(y, v) /\ Apart(v, y)
<1>1. Apart(y, v)
  <2>1. ASSUME Unwritten(y), HasTokens(y.patch), Unwritten(v) \/ v.at = "write_vault"
        PROVE  y.patch.tokens.id # v.patch.tokens.id
    <3>1. Unwritten(u) /\ y.patch.tokens.id = u.patch.tokens.id
      BY <2>1 DEF SameTokens
    <3>2. HasTokens(u.patch)
      BY <2>1, <3>1 DEF HasTokens
    <3>3. QED
      BY <2>1, <3>1, <3>2 DEF Apart
  <2>2. QED
    BY <2>1 DEF Apart
<1>2. ASSUME Unwritten(v), Unwritten(y) \/ y.at = "write_vault", HasTokens(v.patch)
      PROVE  v.patch.tokens.id # y.patch.tokens.id
  <2>1. CASE ~HasTokens(y.patch)
    BY <1>2, <2>1 DEF HasTokens
  <2>2. CASE HasTokens(y.patch)
    BY <1>2, <2>2 DEF SameTokens, Apart, NotOnDisk
  <2>3. QED
    BY <2>1, <2>2
<1>3. QED
  BY <1>1, <1>2 DEF Apart

LockShape == locks \in [{"refresh", "vault", "directory"} -> StoreCallers \cup {Free}]
Holder == locks["refresh"]
Found == FindableOn(disk, current)

LEMMA CallerIs ==
  ASSUME StoreInv, NEW c \in StoreCallers
  PROVE  /\ users[c] \in User /\ CallerInv(c, users[c], disk, Holder, Found, hasDirectory, issued)
         /\ FilesInv(disk, hasDirectory) /\ CommitInv(disk, current, superseded)
         /\ LockShape /\ issued \in TokenIds /\ issued \in Nat /\ issued >= 2
         /\ current \subseteq TokenIds /\ superseded \subseteq TokenIds
         /\ Found \subseteq TokenIds /\ Found # {}
<1>1. Found # {}
  BY FilesFound DEF StoreInv, Found
<1>2. QED
  BY <1>1 DEF StoreInv, StoreShape, CallerInv, Alone, LockShape, Holder, Found, FindableOn, TokenIds

(* A caller moves and the files stay.                                      *)
LEMMA CallerMoves ==
  ASSUME StoreInv, NEW c \in StoreCallers, NEW y, users' = [users EXCEPT ![c] = y],
         UNCHANGED <<disk, hasDirectory, current, superseded>>,
         lapsed' \subseteq TokenIds, issued' \in TokenIds, issued <= issued', crashes' \in 0..MaxCrashes,
         presented' \subseteq TokenIds \X StoreCallers, LockShape',
         \A e \in StoreCallers \ {c} : Holder = e => Holder' = e,
         CallerInv(c, y, disk, Holder', Found, hasDirectory, issued'),
         \A e \in StoreCallers \ {c} : Apart(y, users[e]) /\ Apart(users[e], y)
  PROVE  StoreInv'
<1>1. issued \in Nat /\ issued' \in Nat /\ issued' >= 2
  BY CallerIs DEF TokenIds
<1>2. /\ DOMAIN users' = StoreCallers /\ users' = [e \in StoreCallers |-> users'[e]]
      /\ users'[c] = y /\ \A e \in StoreCallers \ {c} : users'[e] = users[e]
  BY DEF StoreInv, StoreShape
<1>3. StoreShape'
  BY <1>1, <1>2 DEF StoreInv, StoreShape, LockShape
<1>4. Found' = Found
  BY DEF Found
<1>5. ASSUME NEW e \in StoreCallers PROVE CallerInv(e, users'[e], disk, Holder', Found, hasDirectory, issued')
  <2>1. CASE e = c
    BY <1>2, <2>1
  <2>2. CASE e # c
    <3>1. users[e] \in User /\ CallerInv(e, users[e], disk, Holder, Found, hasDirectory, issued)
      BY CallerIs
    <3>2. CallerInv(e, users[e], disk, Holder', Found, hasDirectory, issued')
      BY <1>1, <2>2, <3>1, OtherLocks
    <3>3. QED
      BY <1>2, <2>2, <3>2
  <2>3. QED
    BY <2>1, <2>2
<1>6. \A e, g \in StoreCallers : e # g => Apart(users'[e], users'[g])
  BY <1>2 DEF StoreInv
<1>7. \A p \in Places : disk[p].tokens.id <= issued'
  <2>1. \A p \in Places : disk[p].tokens.id \in Nat /\ disk[p].tokens.id <= issued
    BY DEF StoreInv, FilesInv, Snapshot, Token, TokenIds
  <2>2. QED
    BY <1>1, <2>1
<1>8. QED
  BY <1>3, <1>4, <1>5, <1>6, <1>7 DEF StoreInv, Holder, Found

(* The same, when nothing else moves.                                      *)
LEMMA CallerAlone ==
  ASSUME StoreInv, NEW c \in StoreCallers, NEW y, users' = [users EXCEPT ![c] = y],
         UNCHANGED <<disk, locks, hasDirectory, lapsed, issued, crashes, current, superseded, presented>>,
         CallerInv(c, y, disk, Holder, Found, hasDirectory, issued), SameTokens(users[c], y, disk)
  PROVE  StoreInv'
<1>1. \A e \in StoreCallers \ {c} : Apart(y, users[e]) /\ Apart(users[e], y)
  BY CallerIs, StaysApart DEF StoreInv, CallerInv
<1>2. Holder' = Holder /\ LockShape'
  BY CallerIs DEF Holder, LockShape
<1>3. issued \in Nat /\ issued' \in TokenIds /\ issued <= issued'
  BY CallerIs
<1>4. lapsed' \subseteq TokenIds /\ crashes' \in 0..MaxCrashes /\ presented' \subseteq TokenIds \X StoreCallers
  BY DEF StoreInv, StoreShape
<1>5. CallerInv(c, y, disk, Holder', Found, hasDirectory, issued')
  BY <1>2
<1>6. QED
  BY <1>1, <1>2, <1>3, <1>4, <1>5, CallerMoves

LEMMA EndedWith ==
  ASSUME NEW b \in User, NEW op \in Operations \cup {"none"}, NEW r \in TokenIds, NEW s \in SUBSET TokenIds
  PROVE  [b EXCEPT !.op = op, !.result = r, !.seen = s] \in User
<1>1. PICK x : x = [b EXCEPT !.op = op]
  OBVIOUS
<1>2. x \in User
  BY <1>1 DEF User
<1>3. PICK z : z = [x EXCEPT !.result = r]
  OBVIOUS
<1>4. z \in User
  BY <1>2, <1>3 DEF User
<1>5. [z EXCEPT !.seen = s] \in User
  BY <1>4 DEF User
<1>6. [b EXCEPT !.op = op, !.result = r, !.seen = s] = [z EXCEPT !.seen = s]
  BY <1>1, <1>3
<1>7. QED
  BY <1>5, <1>6

LEMMA LeavingInv ==
  ASSUME NEW c, NEW u, NEW d, NEW h, NEW f, NEW has, NEW n, CallerInv(c, u, d, h, f, has, n),
         NEW r \in TokenIds, u.op = "header" /\ r # 0 => r \in u.seen,
         NEW y, y = Leaving(c, u, r)
  PROVE  CallerInv(c, y, d, h, f, has, n) /\ SameTokens(u, y, d) /\ y.at \in {"release", "ended"}
         /\ y.op = u.op /\ y.patch = Blank /\ Waiting(y) /\ y.cancelled = u.cancelled
<1>1. u \in User
  BY DEF CallerInv, Alone
<1>2. PICK s \in SUBSET TokenIds : s = IF r = 0 THEN {} ELSE u.seen
  BY <1>1 DEF User
<1>3. PICK at \in {"release", "ended"} : at = IF c \in {locks[l] : l \in DOMAIN locks} THEN "release" ELSE "ended"
  OBVIOUS
<1>4. y = [NewUser EXCEPT !.op = u.op, !.result = r, !.seen = s, !.cancelled = u.cancelled, !.at = at]
  BY <1>2, <1>3 DEF Leaving
<1>5. ASSUME NEW b \in User, y = [b EXCEPT !.op = u.op, !.result = r, !.seen = s, !.cancelled = u.cancelled, !.at = at]
      PROVE  /\ y \in User /\ y.op = u.op /\ y.result = r /\ y.seen = s /\ y.at = at /\ y.patch = b.patch
             /\ y.cancelled = u.cancelled
  <2>1. u.op \in Operations \cup {"none"} /\ u.cancelled \in BOOLEAN
    BY <1>1 DEF User
  <2>2. PICK z : z = [b EXCEPT !.op = u.op, !.result = r, !.seen = s]
    OBVIOUS
  <2>3. z \in User
    BY <2>1, <2>2, EndedWith
  <2>4. y = [z EXCEPT !.cancelled = u.cancelled, !.at = at]
    BY <1>5, <2>2 DEF User
  <2>5. y \in User
    BY <2>1, <2>3, <2>4 DEF User
  <2>6. QED
    BY <1>5, <2>5 DEF User
<1>6. /\ y \in User /\ y.op = u.op /\ y.result = r /\ y.seen = s /\ y.at = at /\ y.patch = Blank
      /\ y.cancelled = u.cancelled
  BY <1>4, <1>5, NewUserIs
<1>7. ~HasTokens(y.patch)
  BY <1>6, StoredValues
<1>8. Waiting(y) /\ ~Reading(y) /\ ~Working(y) /\ ~Writing(y) /\ ~Unwritten(y)
  BY <1>3, <1>6 DEF Waiting, Reading, Working, Writing, Unwritten
<1>9. Alone(y)
  BY <1>2, <1>6, <1>8 DEF Alone
<1>10. Knows(y, d, has) /\ Hears(y, d, f) /\ NotOnDisk(y, d, n) /\ ReadSoFar(y, has)
  BY <1>6, <1>7, <1>8 DEF Knows, Hears, NotOnDisk, ReadSoFar
<1>11. QED
  BY <1>6, <1>7, <1>8, <1>9, <1>10 DEF CallerInv, SameTokens

LEMMA CancelledInv ==
  ASSUME NEW c, NEW u, NEW d, NEW h, NEW f, NEW has, NEW n, CallerInv(c, u, d, h, f, has, n),
         NEW y, y = [u EXCEPT !.cancelled = TRUE]
  PROVE  CallerInv(c, y, d, h, f, has, n) /\ y.patch = u.patch /\ y.at = u.at /\ y.why = u.why
<1>1. u \in User
  BY DEF CallerInv, Alone
<1>2. /\ y \in User /\ y.op = u.op /\ y.at = u.at /\ y.why = u.why /\ y.stage = u.stage /\ y.view = u.view
      /\ y.basis = u.basis /\ y.patch = u.patch /\ y.cleared = u.cleared /\ y.result = u.result /\ y.seen = u.seen
  BY <1>1 DEF User
<1>3. QED
  BY <1>2 DEF CallerInv, Alone, Clears, ReadSoFar, Knows, Hears, NotOnDisk, Waiting, Writing, Reading,
    Working, Unwritten

(* A caller stands at another place, with all that it had.                 *)
LEMMA StandsAt ==
  ASSUME NEW u \in User, NEW at \in {"release", "vault_lock", "clear_vault", "inspect", "write_tokens", "write_client",
                                     "finish", "directory_lock", "ended"},
         NEW y, y = [u EXCEPT !.at = at]
  PROVE  /\ y \in User /\ y.op = u.op /\ y.at = at /\ y.why = u.why /\ y.view = u.view /\ y.patch = u.patch
         /\ y.cleared = u.cleared /\ y.result = u.result /\ y.seen = u.seen
  BY DEF User

(* What a read begins with.                                                *)
LEMMA ReadsForIs ==
  ASSUME NEW u \in User, NEW why \in {"header", "transaction", "expected", "previous", "pending"},
         Found \subseteq TokenIds, NEW y, y = ReadsFor(u, why)
  PROVE  /\ y \in User /\ y.op = u.op /\ y.at = "reading" /\ y.why = why /\ y.stage = 0 /\ y.view = NewUser.view
         /\ y.patch = u.patch /\ y.cleared = u.cleared /\ y.result = u.result
         /\ y.seen = IF why \in {"header", "transaction"} THEN Found ELSE u.seen
<1>1. Found = Findable
  BY DEF Found, Findable, FindableOn, Ordered, OrderedOn
<1>2. PICK s \in SUBSET TokenIds : s = IF why \in {"header", "transaction"} THEN Found ELSE u.seen
  BY DEF User
<1>3. PICK w \in [Places -> Snapshot] : w = NewUser.view
  BY NewUserIs
<1>4. y = [u EXCEPT !.at = "reading", !.why = why, !.stage = 0, !.view = w, !.seen = s]
  BY <1>1, <1>2, <1>3 DEF ReadsFor
<1>5. ASSUME NEW stage \in 0..2, y = [u EXCEPT !.at = "reading", !.why = why, !.stage = stage, !.view = w, !.seen = s]
      PROVE  /\ y \in User /\ y.op = u.op /\ y.at = "reading" /\ y.why = why /\ y.stage = stage /\ y.view = w
             /\ y.patch = u.patch /\ y.cleared = u.cleared /\ y.result = u.result /\ y.seen = s
  <2>1. PICK z : z = [u EXCEPT !.at = "reading", !.why = why]
    OBVIOUS
  <2>2. z \in User
    BY <2>1 DEF User
  <2>3. PICK v : v = [z EXCEPT !.stage = stage]
    OBVIOUS
  <2>4. v \in User
    BY <2>2, <2>3 DEF User
  <2>5. y = [v EXCEPT !.view = w, !.seen = s]
    BY <1>5, <2>1, <2>3 DEF User
  <2>6. y \in User
    BY <2>4, <2>5 DEF User
  <2>7. QED
    BY <1>5, <2>6 DEF User
<1>6. QED
  BY <1>2, <1>3, <1>4, <1>5

LEMMA ReadingInv ==
  ASSUME NEW c, NEW y \in User, NEW d, NEW h, NEW f, NEW has, NEW n,
         y.at = "reading", y.stage = 0, y.view = NewUser.view, ~Clears(y), y.op # "import", y.result = 0,
         y.why = "header" => y.op = "header",
         y.why = "transaction" => y.op \in {"header", "authorize"},
         y.why = "pending" => y.op \in {"authorize", "reset"},
         y.op = "header" => y.seen # {},
         y.why # "header" => h = c,
         y.why \in {"header", "transaction"} => f \subseteq y.seen,
         NotOnDisk(y, d, n)
  PROVE  CallerInv(c, y, d, h, f, has, n)
<1>1. Reading(y) /\ ~Waiting(y) /\ ~Writing(y)
  BY DEF Reading, Waiting, Writing
<1>2. Alone(y)
  BY <1>1 DEF Alone
<1>3. QED
  BY <1>1, <1>2 DEF CallerInv, ReadSoFar, Working, Knows, Hears

(* Tokens that have just been issued are nobody else's.                    *)
LEMMA JustIssued ==
  ASSUME NEW y, NEW v \in User, NEW d, NEW n \in Nat, NotOnDisk(v, d, n), y.patch.tokens.id = n + 1
  PROVE  Apart(y, v) /\ Apart(v, y)
<1>1. v.patch.tokens.id \in Nat
  BY DEF User, Snapshot, Token, TokenIds
<1>2. v.patch.tokens.id # 0 /\ (Unwritten(v) \/ v.at = "write_vault") => v.patch.tokens.id <= n
  BY DEF NotOnDisk, HasTokens
<1>3. QED
  BY <1>1, <1>2 DEF Apart, HasTokens

(* A caller moves and is issued new tokens.                                *)
LEMMA CallerIssued ==
  ASSUME StoreInv, NEW c \in StoreCallers, NEW y, users' = [users EXCEPT ![c] = y],
         UNCHANGED <<disk, locks, hasDirectory, lapsed, crashes, current, superseded>>,
         presented' \subseteq TokenIds \X StoreCallers,
         issued < MaxTokens, issued' = issued + 1, y.patch.tokens.id = issued',
         CallerInv(c, y, disk, Holder, Found, hasDirectory, issued')
  PROVE  StoreInv'
<1>1. issued \in Nat /\ issued' \in TokenIds /\ issued <= issued'
  BY CallerIs DEF TokenIds
<1>2. \A e \in StoreCallers \ {c} : Apart(y, users[e]) /\ Apart(users[e], y)
  BY <1>1, CallerIs, JustIssued DEF CallerInv
<1>3. Holder' = Holder /\ LockShape'
  BY CallerIs DEF Holder, LockShape
<1>4. lapsed' \subseteq TokenIds /\ crashes' \in 0..MaxCrashes
  BY DEF StoreInv, StoreShape
<1>5. CallerInv(c, y, disk, Holder', Found, hasDirectory, issued')
  BY <1>3
<1>6. QED
  BY <1>1, <1>2, <1>3, <1>4, <1>5, CallerMoves

(* They are not on disk, and come after those that were found.             *)
LEMMA IssuedNotOnDisk ==
  ASSUME StoreInv, NEW y, y.patch.tokens.id = issued + 1
  PROVE  NotOnDisk(y, disk, issued + 1)
<1>1. \A p \in Places : disk[p].tokens.id \in Nat /\ disk[p].tokens.id <= issued
  BY DEF StoreInv, FilesInv, Snapshot, Token, TokenIds
<1>2. issued \in Nat /\ issued >= 2
  BY DEF StoreInv, StoreShape, TokenIds
<1>3. QED
  BY <1>1, <1>2 DEF NotOnDisk

LEMMA NewTokensIs ==
  ASSUME NEW id \in TokenIds, NEW r \in TokenIds, NEW t, t = [NoTokens EXCEPT !.id = id, !.refresh = r]
  PROVE  t \in Token /\ t.id = id /\ t.refresh = r
<1>1. ASSUME NEW n \in Token, NEW m, m = [n EXCEPT !.id = id, !.refresh = r]
      PROVE  m \in Token /\ m.id = id /\ m.refresh = r
  BY <1>1 DEF Token
<1>2. QED
  BY <1>1, StoredValues

LEMMA BeginKeeps == ASSUME StoreInv, NEW c \in StoreCallers, Begin(c) PROVE StoreInv'
<1> DEFINE u == users[c]
<1>1. u \in User /\ CallerInv(c, u, disk, Holder, Found, hasDirectory, issued) /\ Found \subseteq TokenIds /\ Found # {}
  BY CallerIs
<1>2. u.at = "idle" /\ u.patch = Blank /\ ~HasTokens(u.patch) /\ u.result = 0
  BY <1>1, StoredValues DEF Begin, CallerInv, Alone
<1>3. UNCHANGED <<disk, locks, hasDirectory, lapsed, issued, crashes, current, superseded, presented>>
  BY DEF Begin, Unchanged, HistoryKept
<1>4. CASE u.op = "header"
  <2>1. PICK y : y = ReadsFor(u, "header")
    OBVIOUS
  <2>2. users' = [users EXCEPT ![c] = y]
    BY <1>4, <2>1 DEF Begin, SetUser
  <2>3. /\ y \in User /\ y.op = u.op /\ y.at = "reading" /\ y.why = "header" /\ y.stage = 0 /\ y.view = NewUser.view
        /\ y.patch = u.patch /\ y.cleared = u.cleared /\ y.result = u.result /\ y.seen = Found
    BY <1>1, <2>1, ReadsForIs
  <2>4. ~HasTokens(y.patch)
    BY <1>2, <2>3
  <2>5. NotOnDisk(y, disk, issued) /\ SameTokens(u, y, disk) /\ ~Clears(y)
    BY <1>4, <2>3, <2>4 DEF NotOnDisk, SameTokens, Clears
  <2>6. CallerInv(c, y, disk, Holder, Found, hasDirectory, issued)
    BY <1>1, <1>2, <1>4, <2>3, <2>5, ReadingInv
  <2>7. QED
    BY <1>3, <2>2, <2>5, <2>6, CallerAlone
<1>5. CASE u.op # "header"
  <2>1. PICK y : y = [u EXCEPT !.at = "lock"]
    OBVIOUS
  <2>2. users' = [users EXCEPT ![c] = y]
    BY <1>5, <2>1 DEF Begin, SetUser
  <2>3. y \in User /\ y.op = u.op /\ y.at = "lock" /\ y.patch = u.patch /\ y.result = u.result /\ y.cleared = u.cleared
    BY <1>1, <2>1 DEF User
  <2>4. ~HasTokens(y.patch) /\ y.op # "import" /\ y.op # "header"
    BY <1>2, <1>5, <2>3 DEF Begin
  <2>5. SameTokens(u, y, disk)
    BY <2>4 DEF SameTokens
  <2>6. CallerInv(c, y, disk, Holder, Found, hasDirectory, issued)
    BY <1>2, <2>3, <2>4 DEF CallerInv, Alone, ReadSoFar, Working, Waiting, Reading, Knows, Hears, NotOnDisk
  <2>7. QED
    BY <1>3, <2>2, <2>5, <2>6, CallerAlone
<1>6. QED
  BY <1>4, <1>5

LEMMA PayloadIs ==
  ASSUME NEW id \in TokenIds \ {0}, NEW patch \in Payload(id)
  PROVE  patch \in Snapshot /\ patch.tokens.id = id /\ HasTokens(patch)
<1>1. PICK r \in {0, id}, k \in {0, 2} : patch = [tokens |-> [NoTokens EXCEPT !.id = id, !.refresh = r], client |-> k]
  BY DEF Payload
<1>2. PICK t : t = [NoTokens EXCEPT !.id = id, !.refresh = r]
  OBVIOUS
<1>3. t \in Token /\ t.id = id
  <2>1. id \in TokenIds /\ r \in TokenIds
    BY DEF TokenIds
  <2>2. ASSUME NEW n \in Token, t = [n EXCEPT !.id = id, !.refresh = r]
        PROVE  t \in Token /\ t.id = id
    BY <2>1, <2>2 DEF Token
  <2>3. QED
    BY <1>2, <2>2, StoredValues
<1>4. patch = [tokens |-> t, client |-> k]
  BY <1>1, <1>2
<1>5. QED
  BY <1>3, <1>4 DEF Snapshot, ClientIds, HasTokens

LEMMA BeginSetKeeps == ASSUME StoreInv, NEW c \in StoreCallers, BeginSet(c) PROVE StoreInv'
<1> DEFINE u == users[c]
<1>1. /\ u \in User /\ CallerInv(c, u, disk, Holder, Found, hasDirectory, issued) /\ issued \in Nat /\ issued >= 2
      /\ presented \subseteq TokenIds \X StoreCallers
  BY CallerIs DEF StoreInv, StoreShape
<1>2. UNCHANGED <<disk, locks, hasDirectory, lapsed, crashes, current, superseded, presented>>
  BY DEF BeginSet, Unchanged, HistoryKept
<1>3. issued < MaxTokens /\ issued' = issued + 1 /\ issued' \in TokenIds \ {0}
  BY <1>1 DEF BeginSet, TokenIds
<1>4. PICK patch \in Payload(issued') : users' = [users EXCEPT ![c] = [u EXCEPT !.at = "lock", !.patch = patch]]
  BY DEF BeginSet, SetUser
<1>5. patch \in Snapshot /\ patch.tokens.id = issued' /\ HasTokens(patch)
  BY <1>3, PayloadIs
<1>6. PICK y : y = [u EXCEPT !.at = "lock", !.patch = patch]
  OBVIOUS
<1>7. y \in User /\ y.op = "set" /\ y.at = "lock" /\ y.patch = patch /\ y.result = 0
  BY <1>1, <1>5, <1>6 DEF User, BeginSet, CallerInv, Alone
<1>8. NotOnDisk(y, disk, issued')
  BY <1>3, <1>5, <1>7, IssuedNotOnDisk
<1>9. CallerInv(c, y, disk, Holder, Found, hasDirectory, issued')
  BY <1>7, <1>8 DEF CallerInv, Alone, Clears, ReadSoFar, Working, Waiting, Reading, Knows, Hears
<1>10. QED
  BY <1>1, <1>2, <1>3, <1>4, <1>5, <1>6, <1>7, <1>9, CallerIssued

LEMMA BeginImportKeeps == ASSUME StoreInv, NEW c \in StoreCallers, BeginImport(c) PROVE StoreInv'
<1> DEFINE u == users[c]
<1>1. /\ u \in User /\ CallerInv(c, u, disk, Holder, Found, hasDirectory, issued) /\ issued \in Nat /\ issued >= 2
      /\ presented \subseteq TokenIds \X StoreCallers /\ disk \in [Places -> Snapshot]
  BY CallerIs DEF StoreInv, StoreShape, FilesInv
<1>2. UNCHANGED <<disk, locks, hasDirectory, lapsed, crashes, current, superseded, presented>>
  BY DEF BeginImport, Unchanged, HistoryKept
<1>3. issued < MaxTokens /\ issued' = issued + 1 /\ issued' \in TokenIds \ {0}
  BY <1>1 DEF BeginImport, TokenIds
<1>4. PICK patch \in Payload(issued') :
        users' = [users EXCEPT ![c] = [u EXCEPT !.at = "lock", !.patch = patch, !.nulls = patch.client = 0,
                                               !.view = Slot(disk)]]
  BY DEF BeginImport, SetUser
<1>5. patch \in Snapshot /\ patch.tokens.id = issued' /\ HasTokens(patch)
  BY <1>3, PayloadIs
<1>6. PICK w \in [Places -> Snapshot] : w = Slot(disk)
  BY <1>1, StoredValues DEF Slot
<1>7. PICK b \in BOOLEAN : b = (patch.client = 0)
  OBVIOUS
<1>8. PICK y : y = [u EXCEPT !.at = "lock", !.patch = patch, !.nulls = b, !.view = w]
  OBVIOUS
<1>9. y \in User /\ y.op = "import" /\ y.at = "lock" /\ y.patch = patch /\ y.result = 0 /\ ~hasDirectory
  BY <1>1, <1>5, <1>8 DEF User, BeginImport, CallerInv, Alone
<1>10. NotOnDisk(y, disk, issued')
  BY <1>3, <1>5, <1>9, IssuedNotOnDisk
<1>11. CallerInv(c, y, disk, Holder, Found, hasDirectory, issued')
  BY <1>5, <1>9, <1>10 DEF CallerInv, Alone, Clears, ReadSoFar, Working, Waiting, Reading, Knows, Hears
<1>12. users' = [users EXCEPT ![c] = y]
  BY <1>4, <1>6, <1>7, <1>8
<1>13. QED
  BY <1>1, <1>2, <1>3, <1>5, <1>9, <1>11, <1>12, CallerIssued

(* What is heard of in a view does not depend on its directory.            *)
LEMMA HeardAlike ==
  ASSUME NEW from, NEW to, from["exact"] = to["exact"], from["alias"] = to["alias"], NEW t, NEW heard,
         HeardOf(from, t, heard)
  PROVE  HeardOf(to, t, heard)
  BY DEF HeardOf

(* What has been read of the vault has been heard of.                      *)
LEMMA HeardAll ==
  ASSUME NEW has, NEW d, NEW committed, NEW replaced, FilesInv(d, has), CommitInv(d, committed, replaced),
         NEW heard, FindableOn(d, committed) \subseteq heard, NEW view,
         view["exact"] = d["exact"], view["alias"] = d["alias"]
  PROVE  HeardOf(view, d["directory"].tokens, heard)
<1>1. Sound(d["alias"].tokens) /\ d["alias"].tokens.revision = 0 /\ d \in [Places -> Snapshot]
  BY DEF FilesInv, Places
<1>2. d["directory"].tokens.id \in TokenIds
  BY <1>1 DEF Places, Snapshot, Token
<1>3. d["exact"].tokens.id \in heard \cup {0}
  BY FilesFound DEF HasTokens
<1>4. ~HasTokens(d["exact"]) => d["alias"].tokens.id \in heard \cup {0}
  BY FilesFound
<1>5. d["directory"].tokens.id \in heard \cup {0}
        \/ (HasTokens(d["exact"]) /\ Overtaken(d["directory"].tokens, d["exact"].tokens))
  <2>1. CASE ~HasTokens(d["exact"])
    BY <2>1, FilesFound
  <2>2. CASE HasTokens(d["exact"]) /\ OrderedOn(d)
    BY <2>2, FilesFound DEF HasTokens
  <2>3. CASE ~OrderedOn(d)
    BY <1>2, <2>3 DEF FindableOn
  <2>4. QED
    BY <2>1, <2>2, <2>3
<1>6. QED
  BY <1>1, <1>3, <1>4, <1>5 DEF HeardOf

LEMMA AloneReading ==
  ASSUME NEW y \in User, y.at \in {"reading", "decide"}, ~Clears(y), y.op # "import", y.result = 0,
         y.why = "header" => y.op = "header",
         y.why = "transaction" => y.op \in {"header", "authorize"},
         y.why = "pending" => y.op \in {"authorize", "reset"},
         y.op = "header" /\ Working(y) => y.seen # {}
  PROVE  Alone(y)
<1>1. Reading(y) /\ ~Waiting(y) /\ ~Writing(y)
  BY DEF Reading, Waiting, Writing
<1>2. QED
  BY <1>1 DEF Alone

LEMMA ReadFileKeeps == ASSUME StoreInv, NEW c \in StoreCallers, ReadFile(c) PROVE StoreInv'
<1> DEFINE u == users[c]
           last == IF hasDirectory THEN 2 ELSE 0
           w == CASE u.stage = 0 -> [u.view EXCEPT !["exact"] = disk["exact"], !["alias"] = disk["alias"]]
                  [] u.stage = 1 -> [u.view EXCEPT !["directory"].tokens = disk["directory"].tokens]
                  [] u.stage = 2 -> [u.view EXCEPT !["directory"].client = disk["directory"].client]
<1>1. /\ u \in User /\ CallerInv(c, u, disk, Holder, Found, hasDirectory, issued) /\ disk \in [Places -> Snapshot]
      /\ FilesInv(disk, hasDirectory) /\ CommitInv(disk, current, superseded) /\ hasDirectory \in BOOLEAN
  BY CallerIs DEF FilesInv, StoreInv, StoreShape
<1>2. /\ UNCHANGED <<disk, locks, hasDirectory, lapsed, issued, crashes, current, superseded, presented>>
      /\ u.at = "reading"
  BY DEF ReadFile, Unchanged, HistoryKept
<1>3. u.view \in [Places -> Snapshot] /\ u.stage \in 0..2
  BY <1>1 DEF User
<1>4. /\ u.stage # 0 => hasDirectory
      /\ u.stage = 0 => \A p \in Places : u.view[p] = Blank
      /\ u.stage = 1 => u.view["directory"] = Blank
  BY <1>1, <1>2, NewUserIs DEF CallerInv, ReadSoFar
<1>5. PICK s \in 0..2, at \in {"reading", "decide"} :
        s = (IF u.stage < last THEN u.stage + 1 ELSE 0) /\ at = (IF u.stage < last THEN "reading" ELSE "decide")
  BY <1>1, <1>3
<1>6. PICK v : v = w
  OBVIOUS
<1>7. /\ v \in [Places -> Snapshot]
      /\ u.stage = 0 => v["exact"] = disk["exact"] /\ v["alias"] = disk["alias"] /\ v["directory"] = u.view["directory"]
      /\ u.stage # 0 => v["exact"] = u.view["exact"] /\ v["alias"] = u.view["alias"]
      /\ u.stage = 1 => v["directory"].tokens = disk["directory"].tokens
      /\ u.stage = 2 => v["directory"] = [u.view["directory"] EXCEPT !.client = disk["directory"].client]
  <2>1. CASE u.stage = 0
    BY <1>1, <1>3, <1>6, <2>1 DEF Places
  <2>2. CASE u.stage = 1
    BY <1>1, <1>3, <1>6, <2>2 DEF Places, Snapshot
  <2>3. CASE u.stage = 2
    BY <1>1, <1>3, <1>6, <2>3 DEF Places, Snapshot
  <2>4. QED
    BY <1>3, <2>1, <2>2, <2>3
<1>8. PICK y : y = [u EXCEPT !.stage = s, !.at = at, !.view = v]
  OBVIOUS
<1>9. users' = [users EXCEPT ![c] = y]
  BY <1>5, <1>6, <1>8 DEF ReadFile, SetUser
<1>10. /\ y \in User /\ y.op = u.op /\ y.at = at /\ y.why = u.why /\ y.stage = s /\ y.view = v /\ y.patch = u.patch
       /\ y.cleared = u.cleared /\ y.result = u.result /\ y.seen = u.seen
  <2> HIDE DEF w
  <2>0. u \in User /\ s \in 0..2 /\ at \in {"reading", "decide"}
    BY <1>1, <1>5
  <2>1. PICK x, z : x = [u EXCEPT !.stage = s] /\ z = [x EXCEPT !.at = at]
    OBVIOUS
  <2>2. z \in User
    <3>1. x \in User
      BY <2>0, <2>1 DEF User
    <3>2. ASSUME NEW b \in User, NEW place \in {"reading", "decide"} PROVE [b EXCEPT !.at = place] \in User
      BY DEF User
    <3>3. QED
      BY <2>0, <2>1, <3>1, <3>2
  <2>3. y = [z EXCEPT !.view = v]
    BY <1>1, <1>8, <2>1 DEF User
  <2>4. y \in User
    BY <1>7, <2>2, <2>3 DEF User
  <2>5. QED
    BY <1>1, <1>8, <2>4 DEF User
<1> HIDE DEF w
<1>11. Reading(u) /\ Reading(y) /\ ~Waiting(u) /\ ~Waiting(y) /\ ~Writing(u) /\ ~Writing(y)
  BY <1>2, <1>5, <1>10 DEF Reading, Waiting, Writing
<1>12. (Working(y) <=> Working(u)) /\ (Unwritten(y) <=> Unwritten(u)) /\ (Clears(y) <=> Clears(u))
  BY <1>2, <1>5, <1>10, <1>11 DEF Working, Unwritten, Clears, Reading
<1>13. SameTokens(u, y, disk) /\ NotOnDisk(y, disk, issued)
  BY <1>1, <1>2, <1>5, <1>10, <1>12 DEF CallerInv, SameTokens, NotOnDisk, HasTokens
<1>14. Alone(y)
  <2>1. /\ ~Clears(u) /\ u.op # "import" /\ u.result = 0
        /\ u.why = "header" => u.op = "header"
        /\ u.why = "transaction" => u.op \in {"header", "authorize"}
        /\ u.why = "pending" => u.op \in {"authorize", "reset"}
        /\ u.op = "header" /\ Working(u) => u.seen # {}
    BY <1>1, <1>2, <1>11 DEF CallerInv, Alone
  <2>2. y.at \in {"reading", "decide"}
    BY <1>5, <1>10
  <2>3. QED
    BY <1>10, <1>12, <2>1, <2>2, AloneReading
<1>15. ReadSoFar(y, hasDirectory)
  <2>1. u.stage = 0 => u.view["directory"] = Blank
    BY <1>4 DEF Places
  <2>2. at = "reading" => hasDirectory /\ s # 0 /\ (s = 1 => u.stage = 0)
    BY <1>3, <1>5
  <2>3. QED
    BY <1>7, <1>10, <2>1, <2>2 DEF ReadSoFar
<1>16. u.stage = 2 /\ u.view["directory"].tokens = disk["directory"].tokens => v["directory"] = disk["directory"]
  <2>1. u.view["directory"] \in Snapshot /\ disk["directory"] \in Snapshot
    BY <1>1, <1>3 DEF Places
  <2>2. QED
    BY <1>7, <2>1 DEF Snapshot
<1>17. ~hasDirectory => disk["directory"] = Blank
  BY <1>1 DEF FilesInv
<1>18. ASSUME u.why # "header"
       PROVE  /\ y.at = "decide" => y.view = disk
              /\ y.at = "reading" => y.view["exact"] = disk["exact"] /\ y.view["alias"] = disk["alias"]
              /\ y.at = "reading" /\ y.stage = 2 => y.view["directory"].tokens = disk["directory"].tokens
  <2>1. /\ u.stage # 0 => u.view["exact"] = disk["exact"] /\ u.view["alias"] = disk["alias"]
        /\ u.stage = 2 => u.view["directory"].tokens = disk["directory"].tokens
    BY <1>1, <1>2, <1>11, <1>18 DEF CallerInv, Knows
  <2>2. v["exact"] = disk["exact"] /\ v["alias"] = disk["alias"]
    BY <1>3, <1>7, <2>1
  <2>3. at = "decide" => v["directory"] = disk["directory"]
    <3>1. at = "decide" => u.stage = 2 \/ (u.stage = 0 /\ ~hasDirectory)
      BY <1>3, <1>4, <1>5
    <3>2. QED
      BY <1>4, <1>7, <1>16, <1>17, <2>1, <3>1 DEF Places
  <2>4. at = "decide" => v = disk
    BY <1>1, <1>7, <2>2, <2>3 DEF Places
  <2>5. at = "reading" /\ s = 2 => v["directory"].tokens = disk["directory"].tokens
    BY <1>3, <1>5, <1>7
  <2>6. QED
    BY <1>10, <2>2, <2>4, <2>5
<1>19. Knows(y, disk, hasDirectory)
  BY <1>5, <1>10, <1>18 DEF Knows
<1>20. ASSUME u.why \in {"header", "transaction"}
       PROVE  /\ Found \subseteq u.seen
              /\ u.stage = 0 => HeardOf(v, disk["directory"].tokens, u.seen)
              /\ u.stage # 0 => HeardOf(v, v["directory"].tokens, u.seen)
  <2>1. Found \subseteq u.seen /\ (u.stage = 1 => HeardOf(u.view, disk["directory"].tokens, u.seen))
        /\ (u.stage = 2 => HeardOf(u.view, u.view["directory"].tokens, u.seen))
    BY <1>1, <1>2, <1>11, <1>20 DEF CallerInv, Hears
  <2>2. u.stage = 0 => HeardOf(v, disk["directory"].tokens, u.seen)
    BY <1>1, <1>7, <2>1, HeardAll DEF Found
  <2>3. u.stage = 1 => HeardOf(v, v["directory"].tokens, u.seen)
    BY <1>7, <2>1, HeardAlike
  <2>4. u.stage = 2 => v["directory"].tokens = u.view["directory"].tokens
    BY <1>3, <1>7 DEF Places, Snapshot
  <2>5. u.stage = 2 => HeardOf(v, v["directory"].tokens, u.seen)
    BY <1>7, <2>1, <2>4, HeardAlike
  <2>6. QED
    BY <1>3, <2>1, <2>2, <2>3, <2>5
<1>21. Hears(y, disk, Found)
  <2>1. at = "decide" => u.stage = 2 \/ (u.stage = 0 /\ ~hasDirectory)
    BY <1>3, <1>4, <1>5
  <2>2. at = "reading" => (s = 1 /\ u.stage = 0) \/ (s = 2 /\ u.stage = 1)
    BY <1>3, <1>5
  <2>3. u.stage = 0 /\ ~hasDirectory => v["directory"].tokens = disk["directory"].tokens
    BY <1>4, <1>7, <1>17 DEF Places
  <2>4. QED
    BY <1>5, <1>10, <1>20, <2>1, <2>2, <2>3 DEF Hears
<1>22. CallerInv(c, y, disk, Holder, Found, hasDirectory, issued)
  BY <1>1, <1>10, <1>12, <1>13, <1>14, <1>15, <1>19, <1>21 DEF CallerInv
<1>23. QED
  BY <1>2, <1>9, <1>13, <1>22, CallerAlone

(* A caller leaves the call, with or without a result.                     *)
LEMMA CallerLeaves ==
  ASSUME StoreInv, NEW c \in StoreCallers, NEW r \in TokenIds,
         users[c].op = "header" /\ r # 0 => r \in users[c].seen,
         users' = [users EXCEPT ![c] = Leaving(c, users[c], r)],
         UNCHANGED <<disk, locks, hasDirectory, lapsed, issued, crashes, current, superseded, presented>>
  PROVE  StoreInv'
<1>1. CallerInv(c, users[c], disk, Holder, Found, hasDirectory, issued)
  BY CallerIs
<1>2. PICK y : y = Leaving(c, users[c], r)
  OBVIOUS
<1>3. CallerInv(c, y, disk, Holder, Found, hasDirectory, issued) /\ SameTokens(users[c], y, disk)
  BY <1>1, <1>2, LeavingInv
<1>4. users' = [users EXCEPT ![c] = y]
  BY <1>2
<1>5. QED
  BY <1>3, <1>4, CallerAlone

LEMMA ZeroIs == 0 \in TokenIds
  BY DEF TokenIds

(* What a caller has read, once it has read all of it.                     *)
LEMMA DecidesWith ==
  ASSUME StoreInv, NEW c \in StoreCallers, users[c].at = "decide"
  PROVE  LET u == users[c]
             found == Select(u.view)
         IN  /\ u.view \in [Places -> Snapshot]
             /\ u.why # "header" => u.view = disk /\ Working(u)
             /\ u.why # "header" => found \in Snapshot \cup {Conflict}
             /\ u.why \in {"header", "transaction"} => found.tokens.id \in u.seen \cup {0}
             /\ found.tokens.id \in TokenIds \/ u.why \notin {"header", "transaction"}
<1> DEFINE u == users[c]
<1>1. /\ u \in User /\ CallerInv(c, u, disk, Holder, Found, hasDirectory, issued)
      /\ FilesInv(disk, hasDirectory)
  BY CallerIs
<1>2. u.view \in [Places -> Snapshot] /\ u.seen \subseteq TokenIds
  BY <1>1 DEF User
<1>3. Reading(u) /\ ~Waiting(u)
  BY DEF Reading, Waiting
<1>4. u.why # "header" => u.view = disk /\ Working(u)
  BY <1>1, <1>3 DEF CallerInv, Knows, Working
<1>5. u.why # "header" => Select(u.view) \in Snapshot \cup {Conflict}
  BY <1>1, <1>4, FilesSelect
<1>6. u.why \in {"header", "transaction"} => HeardOf(u.view, u.view["directory"].tokens, u.seen)
  BY <1>1, <1>3 DEF CallerInv, Hears
<1>7. u.why \in {"header", "transaction"} => Select(u.view).tokens.id \in u.seen \cup {0}
  BY <1>2, <1>6, SelectHeard
<1>8. QED
  BY <1>2, <1>4, <1>5, <1>7, ZeroIs

LEMMA DecideHeaderKeeps == ASSUME StoreInv, NEW c \in StoreCallers, DecideHeader(c) PROVE StoreInv'
<1> DEFINE u == users[c]
           found == Select(u.view)
<1>1. /\ u \in User /\ CallerInv(c, u, disk, Holder, Found, hasDirectory, issued)
  BY CallerIs
<1>2. /\ UNCHANGED <<disk, locks, hasDirectory, lapsed, issued, crashes, current, superseded, presented>>
      /\ u.at = "decide" /\ u.why = "header"
  BY DEF DecideHeader, Unchanged, HistoryKept
<1>3. found.tokens.id \in TokenIds /\ found.tokens.id \in u.seen \cup {0}
  BY <1>2, DecidesWith
<1>4. u.op = "header"
  BY <1>1, <1>2 DEF CallerInv, Alone, Reading
<1>5. CASE users' = [users EXCEPT ![c] = Leaving(c, u, 0)]
  BY <1>2, <1>5, CallerLeaves, ZeroIs
<1>6. CASE users' = [users EXCEPT ![c] = Leaving(c, u, found.tokens.id)]
  BY <1>2, <1>3, <1>6, CallerLeaves
<1>7. CASE users' = [users EXCEPT ![c] = [NewUser EXCEPT !.op = u.op, !.at = "lock"]]
  <2>1. PICK y : y = [NewUser EXCEPT !.op = u.op, !.at = "lock"]
    OBVIOUS
  <2>2. ASSUME NEW b \in User, y = [b EXCEPT !.op = u.op, !.at = "lock"]
        PROVE  y \in User /\ y.op = u.op /\ y.at = "lock" /\ y.patch = b.patch /\ y.result = b.result
    BY <1>1, <2>2 DEF User
  <2>3. y \in User /\ y.op = u.op /\ y.at = "lock" /\ y.patch = Blank /\ y.result = 0
    <3>1. NewUser.result = 0
      BY DEF NewUser
    <3>2. QED
      BY <2>1, <2>2, <3>1, NewUserIs
  <2>4. ~HasTokens(y.patch)
    BY <2>3, StoredValues
  <2>5. CallerInv(c, y, disk, Holder, Found, hasDirectory, issued) /\ SameTokens(u, y, disk)
    BY <1>4, <2>3, <2>4 DEF CallerInv, Alone, Clears, ReadSoFar, Working, Waiting, Writing, Reading, Knows, Hears,
         NotOnDisk, SameTokens
  <2>6. users' = [users EXCEPT ![c] = y]
    BY <1>7, <2>1
  <2>7. QED
    BY <1>2, <2>5, <2>6, CallerAlone
<1>8. QED
  BY <1>5, <1>6, <1>7 DEF DecideHeader, SetUser

LEMMA DecideRefreshKeeps == ASSUME StoreInv, NEW c \in StoreCallers, DecideRefresh(c) PROVE StoreInv'
<1> DEFINE u == users[c]
           found == Select(u.view)
<1>1. /\ u \in User /\ CallerInv(c, u, disk, Holder, Found, hasDirectory, issued)
  BY CallerIs
<1>2. /\ UNCHANGED <<disk, locks, hasDirectory, lapsed, issued, crashes, current, superseded, presented>>
      /\ u.at = "decide" /\ u.why = "transaction" /\ u.op = "header"
  BY DEF DecideRefresh, Unchanged, HistoryKept
<1>3. /\ found.tokens.id \in TokenIds /\ found.tokens.id \in u.seen \cup {0} /\ Working(u) /\ u.view = disk
      /\ found \in Snapshot \cup {Conflict}
  BY <1>2, DecidesWith
<1>4. CASE users' = [users EXCEPT ![c] = Leaving(c, u, 0)]
  BY <1>2, <1>4, CallerLeaves, ZeroIs
<1>5. CASE users' = [users EXCEPT ![c] = Leaving(c, u, found.tokens.id)]
  BY <1>2, <1>3, <1>5, CallerLeaves
<1>6. CASE HasTokens(found) /\ users' = [users EXCEPT ![c] =
                [u EXCEPT !.at = "request", !.basis = found, !.view = NewUser.view]]
  <2>1. found \in Snapshot
    BY <1>3, <1>6, StoredValues
  <2>2. PICK w, y :
          w \in [Places -> Snapshot] /\ w = NewUser.view /\ y = [u EXCEPT !.at = "request", !.basis = found, !.view = w]
    BY NewUserIs
  <2>3. /\ y \in User /\ y.op = u.op /\ y.at = "request" /\ y.basis = found /\ y.patch = u.patch
        /\ y.cleared = u.cleared
        /\ y.result = u.result /\ y.seen = u.seen
    BY <1>1, <2>1, <2>2 DEF User
  <2>4. ~Reading(y) /\ ~Waiting(y) /\ ~Writing(y) /\ ~Unwritten(y) /\ Working(y) /\ ~Clears(y)
    BY <1>2, <2>3 DEF Reading, Waiting, Writing, Unwritten, Working, Clears
  <2>5. Alone(y)
    BY <1>1, <1>2, <1>3, <2>3, <2>4 DEF CallerInv, Alone
  <2>6. Knows(y, disk, hasDirectory)
    BY <1>3, <1>6, <2>3, <2>4 DEF Knows
  <2>7. CallerInv(c, y, disk, Holder, Found, hasDirectory, issued) /\ SameTokens(u, y, disk)
    BY <1>1, <1>2, <1>3, <2>3, <2>4, <2>5, <2>6 DEF CallerInv, ReadSoFar, Hears, NotOnDisk, SameTokens
  <2>8. users' = [users EXCEPT ![c] = y]
    BY <1>6, <2>2
  <2>9. QED
    BY <1>2, <2>7, <2>8, CallerAlone
<1>7. QED
  BY <1>4, <1>5, <1>6 DEF DecideRefresh, SetUser

LEMMA DecideAuthorizeKeeps == ASSUME StoreInv, NEW c \in StoreCallers, DecideAuthorize(c) PROVE StoreInv'
<1> DEFINE u == users[c]
           found == Select(u.view)
<1>1. /\ u \in User /\ CallerInv(c, u, disk, Holder, Found, hasDirectory, issued)
  BY CallerIs
<1>2. /\ UNCHANGED <<disk, locks, hasDirectory, lapsed, issued, crashes, current, superseded, presented>>
      /\ u.at = "decide" /\ u.why = "transaction" /\ u.op = "authorize"
  BY DEF DecideAuthorize, Unchanged, HistoryKept
<1>3. found.tokens.id \in TokenIds /\ Working(u) /\ found \in Snapshot \cup {Conflict}
  BY <1>2, DecidesWith
<1>4. CASE users' = [users EXCEPT ![c] = Leaving(c, u, 0)]
  BY <1>2, <1>4, CallerLeaves, ZeroIs
<1>5. CASE users' = [users EXCEPT ![c] = Leaving(c, u, found.tokens.id)]
  BY <1>2, <1>3, <1>5, CallerLeaves
<1>6. CASE found # Conflict /\ users' = [users EXCEPT ![c] =
                [u EXCEPT !.at = "register", !.basis = found, !.view = NewUser.view]]
  <2>1. found \in Snapshot
    BY <1>3, <1>6
  <2>2. PICK w, y :
          w \in [Places -> Snapshot] /\ w = NewUser.view /\ y = [u EXCEPT !.at = "register", !.basis = found, !.view = w]
    BY NewUserIs
  <2>3. /\ y \in User /\ y.op = u.op /\ y.at = "register" /\ y.patch = u.patch /\ y.result = u.result
    BY <1>1, <2>1, <2>2 DEF User
  <2>4. ~Reading(y) /\ ~Waiting(y) /\ ~Writing(y) /\ ~Unwritten(y) /\ Working(y) /\ ~Clears(y)
    BY <1>2, <2>3 DEF Reading, Waiting, Writing, Unwritten, Working, Clears
  <2>5. CallerInv(c, y, disk, Holder, Found, hasDirectory, issued) /\ SameTokens(u, y, disk)
    BY <1>1, <1>2, <1>3, <2>3, <2>4 DEF CallerInv, Alone, Knows, ReadSoFar, Hears, NotOnDisk, SameTokens
  <2>6. users' = [users EXCEPT ![c] = y]
    BY <1>6, <2>2
  <2>7. QED
    BY <1>2, <2>5, <2>6, CallerAlone
<1>7. QED
  BY <1>4, <1>5, <1>6 DEF DecideAuthorize, SetUser

LEMMA DecidePendingKeeps == ASSUME StoreInv, NEW c \in StoreCallers, DecidePending(c) PROVE StoreInv'
<1> DEFINE u == users[c]
           found == Select(u.view)
<1>1. /\ u \in User /\ CallerInv(c, u, disk, Holder, Found, hasDirectory, issued)
  BY CallerIs
<1>2. /\ UNCHANGED <<disk, locks, hasDirectory, lapsed, issued, crashes, current, superseded, presented>>
      /\ u.at = "decide" /\ u.why = "pending"
  BY DEF DecidePending, Unchanged, HistoryKept
<1>3. Working(u) /\ found \in Snapshot \cup {Conflict}
  BY <1>2, DecidesWith
<1>4. Reading(u) /\ ~Waiting(u) /\ ~Writing(u) /\ ~Clears(u) /\ u.op \in {"authorize", "reset"}
  BY <1>1, <1>2 DEF CallerInv, Alone, Reading, Waiting, Writing
<1>5. CASE users' = [users EXCEPT ![c] = Leaving(c, u, 0)]
  BY <1>2, <1>5, CallerLeaves, ZeroIs
<1>6. CASE found # Conflict /\ users' = [users EXCEPT ![c] =
                [u EXCEPT !.at = "callback", !.basis = found, !.view = NewUser.view]]
  <2>1. found \in Snapshot
    BY <1>3, <1>6
  <2>2. PICK w, y :
          w \in [Places -> Snapshot] /\ w = NewUser.view /\ y = [u EXCEPT !.at = "callback", !.basis = found, !.view = w]
    BY NewUserIs
  <2>3. /\ y \in User /\ y.op = u.op /\ y.at = "callback" /\ y.patch = u.patch /\ y.result = u.result
        /\ y.cleared = u.cleared
    BY <1>1, <2>1, <2>2 DEF User
  <2>4. ~Reading(y) /\ ~Waiting(y) /\ ~Writing(y) /\ ~Unwritten(y) /\ Working(y) /\ ~Clears(y)
    BY <1>4, <2>3 DEF Reading, Waiting, Writing, Unwritten, Working, Clears
  <2>5. CallerInv(c, y, disk, Holder, Found, hasDirectory, issued) /\ SameTokens(u, y, disk)
    BY <1>1, <1>2, <1>3, <1>4, <2>3, <2>4 DEF CallerInv, Alone, Knows, ReadSoFar, Hears, NotOnDisk, SameTokens
  <2>6. users' = [users EXCEPT ![c] = y]
    BY <1>6, <2>2
  <2>7. QED
    BY <1>2, <2>5, <2>6, CallerAlone
<1>7. QED
  BY <1>5, <1>6 DEF DecidePending, SetUser

LEMMA DecideExpectedKeeps == ASSUME StoreInv, NEW c \in StoreCallers, DecideExpected(c) PROVE StoreInv'
<1> DEFINE u == users[c]
<1>1. /\ u \in User /\ CallerInv(c, u, disk, Holder, Found, hasDirectory, issued)
  BY CallerIs
<1>2. /\ UNCHANGED <<disk, locks, hasDirectory, lapsed, issued, crashes, current, superseded, presented>>
      /\ u.at = "decide" /\ u.why = "expected"
  BY DEF DecideExpected, Unchanged, HistoryKept
<1>3. Reading(u) /\ ~Waiting(u) /\ ~Writing(u) /\ Working(u) /\ Unwritten(u) /\ ~Clears(u) /\ u.op # "import"
  BY <1>1, <1>2 DEF CallerInv, Alone, Reading, Waiting, Writing, Working, Unwritten
<1>4. CASE users' = [users EXCEPT ![c] = Leaving(c, u, 0)]
  BY <1>2, <1>4, CallerLeaves, ZeroIs
<1>5. CASE users' = [users EXCEPT ![c] = [u EXCEPT !.at = "vault_lock", !.view = NewUser.view]]
  <2>1. PICK w \in [Places -> Snapshot] : w = NewUser.view
    BY NewUserIs
  <2>2. PICK y : y = [u EXCEPT !.at = "vault_lock", !.view = w]
    OBVIOUS
  <2>3. /\ y \in User /\ y.op = u.op /\ y.at = "vault_lock" /\ y.patch = u.patch /\ y.result = u.result
        /\ y.cleared = u.cleared /\ y.seen = u.seen
    BY <1>1, <2>1, <2>2 DEF User
  <2>4. ~Reading(y) /\ ~Waiting(y) /\ ~Writing(y) /\ Unwritten(y) /\ Working(y) /\ ~Clears(y)
    BY <1>3, <2>3 DEF Reading, Waiting, Writing, Unwritten, Working, Clears
  <2>5. NotOnDisk(y, disk, issued) /\ SameTokens(u, y, disk)
    BY <1>1, <1>3, <2>3, <2>4 DEF CallerInv, NotOnDisk, SameTokens, HasTokens
  <2>6. CallerInv(c, y, disk, Holder, Found, hasDirectory, issued)
    BY <1>1, <1>2, <1>3, <2>3, <2>4, <2>5 DEF CallerInv, Alone, Knows, ReadSoFar, Hears
  <2>7. users' = [users EXCEPT ![c] = y]
    BY <1>5, <2>1, <2>2
  <2>8. QED
    BY <1>2, <2>5, <2>6, <2>7, CallerAlone
<1>6. QED
  BY <1>4, <1>5 DEF DecideExpected, SetUser

(* The entry that is going to be written takes the tokens it was made of.  *)
LEMMA EntryMade ==
  ASSUME StoreInv, NEW c \in StoreCallers, NEW y \in User, NEW previous \in Snapshot,
         Unwritten(users[c]), Working(users[c]), ~Clears(users[c]),
         HasTokens(users[c].patch) \/ (Select(disk) # Conflict /\ previous = Select(disk)),
         y.op = users[c].op, y.at = "write_vault", y.cleared = users[c].cleared, y.seen = users[c].seen, y.result = 0,
         y.patch = Entry(users[c].patch, users[c].nulls, previous, disk)
  PROVE  CallerInv(c, y, disk, Holder, Found, hasDirectory, issued) /\ SameTokens(users[c], y, disk)
<1> DEFINE u == users[c]
<1>1. /\ u \in User /\ CallerInv(c, u, disk, Holder, Found, hasDirectory, issued)
      /\ FilesInv(disk, hasDirectory) /\ issued \in Nat
  BY CallerIs
<1>2. u.patch \in Snapshot /\ u.nulls \in BOOLEAN
  BY <1>1 DEF User
<1>3. HasTokens(u.patch) => /\ u.patch.tokens.id > 2 /\ u.patch.tokens.id <= issued
                            /\ \A p \in Places : disk[p].tokens.id # u.patch.tokens.id
  BY <1>1 DEF CallerInv, NotOnDisk
<1>4. /\ y.patch \in Snapshot /\ Ready(y.patch.tokens, disk)
      /\ y.patch.tokens.id = IF HasTokens(u.patch) THEN u.patch.tokens.id ELSE Select(disk).tokens.id
  BY <1>1, <1>2, <1>3, EntryReady
<1>5. ~HasTokens(u.patch) => \E p \in Places : disk[p].tokens.id = y.patch.tokens.id
  <2>1. ~HasTokens(u.patch) => \E p \in Places : Select(disk).tokens = disk[p].tokens
    BY <1>1, FilesSelect
  <2>2. QED
    BY <1>4, <2>1
<1>6. ~Unwritten(y) /\ ~Waiting(y) /\ ~Reading(y) /\ ~Writing(y) /\ ~Clears(y) /\ Working(y)
  BY DEF Unwritten, Waiting, Reading, Writing, Clears, Working
<1>7. SameTokens(u, y, disk)
  BY <1>4, <1>5, <1>6 DEF SameTokens
<1>8. \A p \in Places : disk[p].tokens.id <= issued
  BY DEF StoreInv
<1>9. NotOnDisk(y, disk, issued)
  BY <1>3, <1>4, <1>5, <1>6, <1>8 DEF NotOnDisk
<1>10. Alone(y)
  BY <1>1, <1>6 DEF CallerInv, Alone
<1>11. CallerInv(c, y, disk, Holder, Found, hasDirectory, issued)
  BY <1>1, <1>4, <1>6, <1>9, <1>10 DEF CallerInv, ReadSoFar, Knows, Hears
<1>12. QED
  BY <1>7, <1>11

LEMMA DecideEntryKeeps == ASSUME StoreInv, NEW c \in StoreCallers, DecideEntry(c) PROVE StoreInv'
<1> DEFINE u == users[c]
           previous == Select(u.view)
           entry == Entry(u.patch, u.nulls, previous, u.view)
<1>1. /\ u \in User /\ CallerInv(c, u, disk, Holder, Found, hasDirectory, issued) /\ FilesInv(disk, hasDirectory)
  BY CallerIs
<1>2. /\ UNCHANGED <<disk, locks, hasDirectory, lapsed, issued, crashes, current, superseded, presented>>
      /\ u.at = "decide" /\ u.why = "previous"
  BY DEF DecideEntry, Unchanged, HistoryKept
<1>3. Working(u) /\ previous \in Snapshot \cup {Conflict} /\ u.view = disk
  BY <1>2, DecidesWith
<1>4. Reading(u) /\ Unwritten(u) /\ ~Waiting(u) /\ ~Writing(u) /\ ~Clears(u) /\ u.result = 0
  BY <1>1, <1>2 DEF CallerInv, Alone, Reading, Waiting, Writing, Unwritten
<1>5. CASE users' = [users EXCEPT ![c] = Leaving(c, u, 0)]
  BY <1>2, <1>5, CallerLeaves, ZeroIs
<1>6. CASE previous # Conflict /\ users' = [users EXCEPT ![c] =
                [u EXCEPT !.at = "write_vault", !.patch = entry, !.view = NewUser.view]]
  <2>1. previous \in Snapshot /\ previous = Select(disk) /\ entry = Entry(u.patch, u.nulls, previous, disk)
    BY <1>3, <1>6
  <2>2. u.patch \in Snapshot /\ u.nulls \in BOOLEAN
    BY <1>1 DEF User
  <2>3. HasTokens(u.patch) => u.patch.tokens.id > 2 /\ \A p \in Places : disk[p].tokens.id # u.patch.tokens.id
    BY <1>1, <1>4 DEF CallerInv, NotOnDisk
  <2>4. entry \in Snapshot
    BY <1>1, <1>6, <2>1, <2>2, <2>3, EntryReady
  <2>5. PICK w, y :
          w \in [Places -> Snapshot] /\ w = NewUser.view /\ y = [u EXCEPT !.at = "write_vault", !.patch = entry, !.view = w]
    BY NewUserIs
  <2>6. /\ y \in User /\ y.op = u.op /\ y.at = "write_vault" /\ y.patch = entry /\ y.cleared = u.cleared
        /\ y.result = u.result /\ y.seen = u.seen
    BY <1>1, <2>4, <2>5 DEF User
  <2>7. CallerInv(c, y, disk, Holder, Found, hasDirectory, issued) /\ SameTokens(u, y, disk)
    BY <1>3, <1>4, <1>6, <2>1, <2>6, EntryMade
  <2>8. users' = [users EXCEPT ![c] = y]
    BY <1>6, <2>5
  <2>9. QED
    BY <1>2, <2>7, <2>8, CallerAlone
<1>7. QED
  BY <1>5, <1>6 DEF DecideEntry, SetUser, Refuses

-----------------------------------------------------------------------------
(* Locks and the network.                                                  *)

(* A caller moves and takes or gives back locks.                           *)
LEMMA CallerLocks ==
  ASSUME StoreInv, NEW c \in StoreCallers, NEW y, users' = [users EXCEPT ![c] = y],
         UNCHANGED <<disk, hasDirectory, lapsed, issued, crashes, current, superseded, presented>>, LockShape',
         \A e \in StoreCallers \ {c} : Holder = e => Holder' = e,
         CallerInv(c, y, disk, Holder', Found, hasDirectory, issued), SameTokens(users[c], y, disk)
  PROVE  StoreInv'
<1>1. \A e \in StoreCallers \ {c} : Apart(y, users[e]) /\ Apart(users[e], y)
  BY CallerIs, StaysApart DEF StoreInv, CallerInv
<1>2. issued \in Nat /\ issued' \in TokenIds /\ issued <= issued'
  BY CallerIs
<1>3. lapsed' \subseteq TokenIds /\ crashes' \in 0..MaxCrashes /\ presented' \subseteq TokenIds \X StoreCallers
  BY DEF StoreInv, StoreShape
<1>4. CallerInv(c, y, disk, Holder', Found, hasDirectory, issued')
  OBVIOUS
<1>5. QED
  BY <1>1, <1>2, <1>3, <1>4, CallerMoves

LEMMA NobodyIsFree == Free \notin StoreCallers
  BY DEF StoreAssumption

LEMMA AcquireTransactionKeeps == ASSUME StoreInv, NEW c \in StoreCallers, AcquireTransaction(c) PROVE StoreInv'
<1> DEFINE u == users[c]
<1>1. /\ u \in User /\ CallerInv(c, u, disk, Holder, Found, hasDirectory, issued) /\ LockShape
      /\ Found \subseteq TokenIds
      /\ Found # {}
  BY CallerIs
<1>2. /\ UNCHANGED <<disk, hasDirectory, lapsed, issued, crashes, current, superseded, presented>>
      /\ u.at = "lock" /\ Holder = Free /\ locks' = [locks EXCEPT !["refresh"] = c]
  BY DEF AcquireTransaction, Unchanged, HistoryKept, TransactionFree, Holder
<1>3. Holder' = c /\ LockShape' /\ \A e \in StoreCallers : Holder # e
  BY <1>1, <1>2, NobodyIsFree DEF Holder, LockShape
<1>4. Unwritten(u) /\ Waiting(u) /\ u.result = 0
  BY <1>1, <1>2 DEF CallerInv, Alone, Unwritten, Waiting
<1>5. CASE users' = [users EXCEPT ![c] = [u EXCEPT !.at = "release"]]
  <2>1. PICK y : y = [u EXCEPT !.at = "release"]
    OBVIOUS
  <2>2. /\ y \in User /\ y.op = u.op /\ y.at = "release" /\ y.result = 0
    BY <1>1, <1>4, <2>1, StandsAt
  <2>3. ~Unwritten(y) /\ Waiting(y) /\ ~Reading(y) /\ ~Writing(y) /\ ~Working(y)
    BY <2>2 DEF Unwritten, Waiting, Reading, Writing, Working
  <2>4. CallerInv(c, y, disk, Holder', Found, hasDirectory, issued) /\ SameTokens(u, y, disk)
    BY <1>1, <2>2, <2>3 DEF CallerInv, Alone, ReadSoFar, Knows, Hears, NotOnDisk, SameTokens
  <2>5. QED
    BY <1>2, <1>3, <1>5, <2>1, <2>4, CallerLocks
<1>6. CASE u.op \in {"header", "authorize"} /\ users' = [users EXCEPT ![c] = ReadsFor(u, "transaction")]
  <2>1. PICK y : y = ReadsFor(u, "transaction")
    OBVIOUS
  <2>2. /\ y \in User /\ y.op = u.op /\ y.at = "reading" /\ y.why = "transaction" /\ y.stage = 0
        /\ y.view = NewUser.view
        /\ y.patch = u.patch /\ y.cleared = u.cleared /\ y.result = u.result /\ y.seen = Found
    BY <1>1, <2>1, ReadsForIs
  <2>3. ~Unwritten(y) /\ y.at # "write_vault" /\ ~Clears(y)
    BY <1>6, <2>2 DEF Unwritten, Clears, Reading
  <2>4. NotOnDisk(y, disk, issued) /\ SameTokens(u, y, disk)
    BY <2>3 DEF NotOnDisk, SameTokens
  <2>5. CallerInv(c, y, disk, Holder', Found, hasDirectory, issued)
    BY <1>1, <1>3, <1>4, <1>6, <2>2, <2>3, <2>4, ReadingInv
  <2>6. users' = [users EXCEPT ![c] = y]
    BY <1>6, <2>1
  <2>7. QED
    BY <1>2, <1>3, <2>4, <2>5, <2>6, CallerLocks
<1>7. CASE u.op \notin {"header", "authorize"} /\ users' = [users EXCEPT ![c] = [u EXCEPT !.at = "vault_lock"]]
  <2>1. PICK y : y = [u EXCEPT !.at = "vault_lock"]
    OBVIOUS
  <2>2. /\ y \in User /\ y.op = u.op /\ y.at = "vault_lock" /\ y.result = 0 /\ y.patch = u.patch
        /\ y.cleared = u.cleared
    BY <1>1, <1>4, <2>1, StandsAt
  <2>3. Unwritten(y) /\ ~Waiting(y) /\ ~Reading(y) /\ ~Writing(y) /\ Working(y)
    BY <2>2 DEF Unwritten, Waiting, Reading, Writing, Working
  <2>4. NotOnDisk(y, disk, issued) /\ SameTokens(u, y, disk)
    BY <1>1, <1>4, <2>2, <2>3 DEF CallerInv, NotOnDisk, SameTokens, HasTokens
  <2>5. CallerInv(c, y, disk, Holder', Found, hasDirectory, issued)
    BY <1>1, <1>2, <1>3, <1>7, <2>2, <2>3, <2>4 DEF CallerInv, Alone, ReadSoFar, Knows, Hears
  <2>6. QED
    BY <1>2, <1>3, <1>7, <2>1, <2>4, <2>5, CallerLocks
<1>8. QED
  BY <1>5, <1>6, <1>7 DEF AcquireTransaction, SetUser

LEMMA AcquireVaultKeeps == ASSUME StoreInv, NEW c \in StoreCallers, AcquireVault(c) PROVE StoreInv'
<1> DEFINE u == users[c]
           clears == u.op = "clear" \/ (u.op = "reset" /\ ~u.cleared)
<1>1. /\ u \in User /\ CallerInv(c, u, disk, Holder, Found, hasDirectory, issued) /\ LockShape
      /\ Found \subseteq TokenIds
  BY CallerIs
<1>2. /\ UNCHANGED <<disk, hasDirectory, lapsed, issued, crashes, current, superseded, presented>>
      /\ u.at = "vault_lock" /\ locks' = [locks EXCEPT !["vault"] = c]
  BY DEF AcquireVault, Unchanged, HistoryKept
<1>3. Holder' = Holder /\ LockShape'
  BY <1>1, <1>2 DEF Holder, LockShape
<1>4. Unwritten(u) /\ ~Waiting(u) /\ Working(u) /\ Holder = c /\ u.result = 0 /\ clears = Clears(u)
  BY <1>1, <1>2 DEF CallerInv, Alone, Unwritten, Waiting, Working, Reading, Clears
<1>5. CASE Clears(u) /\ users' = [users EXCEPT ![c] = [u EXCEPT !.at = "clear_vault"]]
  <2>1. PICK y : y = [u EXCEPT !.at = "clear_vault"]
    OBVIOUS
  <2>2. y \in User /\ y.op = u.op /\ y.at = "clear_vault" /\ y.result = 0 /\ y.cleared = u.cleared
    BY <1>1, <1>4, <2>1, StandsAt
  <2>3. ~Unwritten(y) /\ ~Waiting(y) /\ ~Reading(y) /\ ~Writing(y) /\ Clears(y) /\ y.op # "header"
    BY <1>5, <2>2 DEF Unwritten, Waiting, Reading, Writing, Clears
  <2>4. CallerInv(c, y, disk, Holder', Found, hasDirectory, issued) /\ SameTokens(u, y, disk)
    BY <1>1, <1>3, <1>4, <2>2, <2>3 DEF CallerInv, Alone, ReadSoFar, Knows, Hears, NotOnDisk, SameTokens
  <2>5. QED
    BY <1>2, <1>3, <1>5, <2>1, <2>4, CallerLocks
<1>6. CASE u.op = "import" /\ users' = [users EXCEPT ![c] = [u EXCEPT !.at = "inspect"]]
  <2>1. PICK y : y = [u EXCEPT !.at = "inspect"]
    OBVIOUS
  <2>2. y \in User /\ y.op = u.op /\ y.at = "inspect" /\ y.result = 0 /\ y.patch = u.patch
    BY <1>1, <1>4, <2>1, StandsAt
  <2>3. Unwritten(y) /\ ~Waiting(y) /\ ~Reading(y) /\ ~Writing(y) /\ ~Clears(y) /\ y.op # "header"
    BY <1>6, <2>2 DEF Unwritten, Waiting, Reading, Writing, Clears
  <2>4. NotOnDisk(y, disk, issued) /\ SameTokens(u, y, disk)
    BY <1>1, <1>4, <2>2, <2>3 DEF CallerInv, NotOnDisk, SameTokens, HasTokens
  <2>5. CallerInv(c, y, disk, Holder', Found, hasDirectory, issued)
    BY <1>1, <1>2, <1>3, <1>4, <1>6, <2>2, <2>3, <2>4 DEF CallerInv, Alone, ReadSoFar, Knows, Hears
  <2>6. QED
    BY <1>2, <1>3, <1>6, <2>1, <2>4, <2>5, CallerLocks
<1>7. CASE ~Clears(u) /\ u.op # "import" /\ users' = [users EXCEPT ![c] = ReadsFor(u, "previous")]
  <2>1. PICK y : y = ReadsFor(u, "previous")
    OBVIOUS
  <2>2. /\ y \in User /\ y.op = u.op /\ y.at = "reading" /\ y.why = "previous" /\ y.stage = 0 /\ y.view = NewUser.view
        /\ y.patch = u.patch /\ y.cleared = u.cleared /\ y.result = u.result /\ y.seen = u.seen
    BY <1>1, <2>1, ReadsForIs
  <2>3. Unwritten(y) /\ y.at # "write_vault" /\ ~Clears(y)
    BY <1>7, <2>2 DEF Unwritten, Clears, Reading
  <2>4. NotOnDisk(y, disk, issued) /\ SameTokens(u, y, disk)
    BY <1>1, <1>4, <2>2, <2>3 DEF CallerInv, NotOnDisk, SameTokens, HasTokens
  <2>5. u.op = "header" => u.seen # {}
    BY <1>1, <1>4 DEF CallerInv, Alone
  <2>6. CallerInv(c, y, disk, Holder', Found, hasDirectory, issued)
    BY <1>3, <1>4, <1>7, <2>2, <2>3, <2>4, <2>5, ReadingInv
  <2>7. QED
    BY <1>2, <1>3, <1>7, <2>1, <2>4, <2>6, CallerLocks
<1>8. QED
  BY <1>4, <1>5, <1>6, <1>7 DEF AcquireVault, SetUser

LEMMA AcquireDirectoryKeeps == ASSUME StoreInv, NEW c \in StoreCallers, AcquireDirectory(c) PROVE StoreInv'
<1> DEFINE u == users[c]
<1>1. /\ u \in User /\ CallerInv(c, u, disk, Holder, Found, hasDirectory, issued) /\ LockShape
  BY CallerIs
<1>2. /\ UNCHANGED <<disk, hasDirectory, lapsed, issued, crashes, current, superseded, presented>>
      /\ u.at = "directory_lock" /\ locks' = [locks EXCEPT !["directory"] = c]
      /\ users' = [users EXCEPT ![c] = [u EXCEPT !.at = "write_tokens"]]
  BY DEF AcquireDirectory, Unchanged, HistoryKept, SetUser
<1>3. Holder' = Holder /\ LockShape'
  BY <1>1, <1>2 DEF Holder, LockShape
<1>4. ~Waiting(u) /\ Working(u) /\ Writing(u) /\ Holder = c /\ u.result = 0
  BY <1>1, <1>2 DEF CallerInv, Alone, Waiting, Working, Reading, Writing
<1>5. PICK y : y = [u EXCEPT !.at = "write_tokens"]
  OBVIOUS
<1>6. /\ y \in User /\ y.op = u.op /\ y.at = "write_tokens" /\ y.result = 0
      /\ y.cleared = u.cleared /\ y.patch = u.patch
      /\ y.seen = u.seen
  BY <1>1, <1>4, <1>5, StandsAt
<1>7. ~Unwritten(y) /\ ~Waiting(y) /\ ~Reading(y) /\ Writing(y) /\ Clears(y) = Clears(u)
  BY <1>6 DEF Unwritten, Waiting, Reading, Writing, Clears
<1>8. Alone(y)
  BY <1>1, <1>4, <1>6, <1>7 DEF CallerInv, Alone
<1>9. Knows(y, disk, hasDirectory)
  BY <1>1, <1>2, <1>6, <1>7 DEF CallerInv, Knows
<1>10. CallerInv(c, y, disk, Holder', Found, hasDirectory, issued) /\ SameTokens(u, y, disk)
  BY <1>1, <1>3, <1>4, <1>6, <1>7, <1>8, <1>9 DEF CallerInv, ReadSoFar, Hears, NotOnDisk, SameTokens
<1>11. QED
  BY <1>2, <1>3, <1>5, <1>10, CallerLocks

LEMMA LockBusyKeeps == ASSUME StoreInv, NEW c \in StoreCallers, LockBusy(c) PROVE StoreInv'
<1>1. UNCHANGED <<disk, locks, hasDirectory, lapsed, issued, crashes, current, superseded, presented>>
  BY DEF LockBusy, Unchanged, HistoryKept
<1>2. users' = [users EXCEPT ![c] = Leaving(c, users[c], 0)]
  BY DEF LockBusy, SetUser
<1>3. QED
  BY <1>1, <1>2, CallerLeaves, ZeroIs

LEMMA WriteFailsKeeps == ASSUME StoreInv, NEW c \in StoreCallers, WriteFails(c) PROVE StoreInv'
<1>1. UNCHANGED <<disk, locks, hasDirectory, lapsed, issued, crashes, current, superseded, presented>>
  BY DEF WriteFails, Unchanged, HistoryKept
<1>2. users' = [users EXCEPT ![c] = Leaving(c, users[c], 0)]
  BY DEF WriteFails, SetUser
<1>3. QED
  BY <1>1, <1>2, CallerLeaves, ZeroIs

LEMMA CallReleaseKeeps == ASSUME StoreInv, NEW c \in StoreCallers, Release(c) PROVE StoreInv'
<1> DEFINE u == users[c]
<1>1. /\ u \in User /\ CallerInv(c, u, disk, Holder, Found, hasDirectory, issued) /\ LockShape
  BY CallerIs
<1>2. /\ UNCHANGED <<disk, hasDirectory, lapsed, issued, crashes, current, superseded, presented>>
      /\ u.at = "release" /\ locks' = [l \in DOMAIN locks |-> IF locks[l] = c THEN Free ELSE locks[l]]
      /\ users' = [users EXCEPT ![c] = [u EXCEPT !.at = "ended"]]
  BY DEF Release, Unchanged, HistoryKept, SetUser
<1>3. LockShape' /\ \A e \in StoreCallers \ {c} : Holder = e => Holder' = e
  BY <1>1, <1>2 DEF Holder, LockShape
<1>4. PICK y : y = [u EXCEPT !.at = "ended"]
  OBVIOUS
<1>5. y \in User /\ y.op = u.op /\ y.at = "ended" /\ y.result = u.result /\ y.seen = u.seen
  BY <1>1, <1>4, StandsAt
<1>6. ~Unwritten(y) /\ Waiting(y) /\ ~Reading(y) /\ ~Writing(y) /\ ~Working(y)
  BY <1>5 DEF Unwritten, Waiting, Reading, Writing, Working
<1>7. CallerInv(c, y, disk, Holder', Found, hasDirectory, issued) /\ SameTokens(u, y, disk)
  BY <1>1, <1>5, <1>6 DEF CallerInv, Alone, ReadSoFar, Knows, Hears, NotOnDisk, SameTokens
<1>8. QED
  BY <1>2, <1>3, <1>4, <1>7, CallerLocks

LEMMA RequestRefreshKeeps == ASSUME StoreInv, NEW c \in StoreCallers, RequestRefresh(c) PROVE StoreInv'
<1> DEFINE u == users[c]
<1>1. /\ u \in User /\ CallerInv(c, u, disk, Holder, Found, hasDirectory, issued) /\ Found \subseteq TokenIds
      /\ issued \in Nat
  BY CallerIs
<1>2. /\ UNCHANGED <<disk, locks, hasDirectory, lapsed, crashes, current, superseded>> /\ u.at = "request"
      /\ presented' = presented \cup {<<u.basis.tokens.refresh, c>>}
  BY DEF RequestRefresh, Unchanged
<1>3. u.basis.tokens.refresh \in TokenIds
  BY <1>1 DEF User, Snapshot, Token
<1>4. presented' \subseteq TokenIds \X StoreCallers /\ presented \subseteq TokenIds \X StoreCallers
  BY <1>2, <1>3 DEF StoreInv, StoreShape
<1>5. /\ Working(u) /\ u.op = "header" /\ Holder = c /\ u.seen # {} /\ u.result = 0
  BY <1>1, <1>2 DEF CallerInv, Alone, Working, Waiting, Reading
<1>6. CASE users' = [users EXCEPT ![c] = Leaving(c, u, 0)] /\ UNCHANGED issued
  <2>1. PICK y : y = Leaving(c, u, 0)
    OBVIOUS
  <2>2. CallerInv(c, y, disk, Holder, Found, hasDirectory, issued) /\ SameTokens(u, y, disk)
    BY <1>1, <2>1, LeavingInv, ZeroIs
  <2>3. \A e \in StoreCallers \ {c} : Apart(y, users[e]) /\ Apart(users[e], y)
    BY <2>2, CallerIs, StaysApart DEF StoreInv, CallerInv
  <2>4. Holder' = Holder /\ LockShape' /\ issued' \in TokenIds /\ issued <= issued'
    BY <1>1, <1>2, <1>6, CallerIs DEF Holder, LockShape
  <2>5. lapsed' \subseteq TokenIds /\ crashes' \in 0..MaxCrashes
    BY <1>2 DEF StoreInv, StoreShape
  <2>6. CallerInv(c, y, disk, Holder', Found, hasDirectory, issued')
    BY <1>6, <2>2, <2>4
  <2>7. users' = [users EXCEPT ![c] = y]
    BY <1>6, <2>1
  <2>8. QED
    BY <1>2, <1>4, <2>3, <2>4, <2>5, <2>6, <2>7, CallerMoves
<1>7. ASSUME issued < MaxTokens, issued' = issued + 1, NEW refresh \in {issued', u.basis.tokens.refresh},
             NEW patch, patch = [tokens |-> [NoTokens EXCEPT !.id = issued', !.refresh = refresh], client |-> 0],
             users' = [users EXCEPT ![c] = ReadsFor([u EXCEPT !.patch = patch], "expected")]
      PROVE  StoreInv'
  <2>1. issued' \in TokenIds /\ refresh \in TokenIds
    BY <1>1, <1>3, <1>7 DEF TokenIds
  <2>2. PICK t : t = [NoTokens EXCEPT !.id = issued', !.refresh = refresh]
    OBVIOUS
  <2>3. t \in Token /\ t.id = issued'
    BY <2>1, <2>2, NewTokensIs
  <2>4. patch = [tokens |-> t, client |-> 0]
    BY <1>7, <2>2
  <2>5. patch \in Snapshot /\ patch.tokens.id = issued'
    BY <2>3, <2>4 DEF Snapshot, ClientIds
  <2>6. PICK z : z = [u EXCEPT !.patch = patch]
    OBVIOUS
  <2>7. z \in User /\ z.op = u.op /\ z.patch = patch /\ z.cleared = u.cleared /\ z.result = u.result /\ z.seen = u.seen
    BY <1>1, <2>5, <2>6 DEF User
  <2>8. PICK y : y = ReadsFor(z, "expected")
    OBVIOUS
  <2>9. /\ y \in User /\ y.op = "header" /\ y.at = "reading" /\ y.why = "expected"
        /\ y.stage = 0 /\ y.view = NewUser.view
        /\ y.patch = patch /\ y.result = 0 /\ y.seen = u.seen
    BY <1>1, <1>5, <2>7, <2>8, ReadsForIs
  <2>10. NotOnDisk(y, disk, issued') /\ ~Clears(y)
    BY <1>7, <2>5, <2>9, IssuedNotOnDisk DEF Clears
  <2>11. CallerInv(c, y, disk, Holder, Found, hasDirectory, issued')
    BY <1>5, <2>9, <2>10, ReadingInv
  <2>12. users' = [users EXCEPT ![c] = y]
    BY <1>7, <2>6, <2>8
  <2>13. issued < MaxTokens /\ issued' = issued + 1 /\ y.patch.tokens.id = issued'
    BY <1>7, <2>5, <2>9
  <2>14. UNCHANGED <<disk, locks, hasDirectory, lapsed, crashes, current, superseded>>
    BY <1>2
  <2>15. presented' \subseteq TokenIds \X StoreCallers
    BY <1>4
  <2>16. QED
    BY <2>11, <2>12, <2>13, <2>14, <2>15, CallerIssued
<1>8. QED
  BY <1>6, <1>7 DEF RequestRefresh, SetUser

LEMMA CallbackKeeps == ASSUME StoreInv, NEW c \in StoreCallers, Callback(c) PROVE StoreInv'
<1> DEFINE u == users[c]
<1>1. /\ u \in User /\ CallerInv(c, u, disk, Holder, Found, hasDirectory, issued) /\ Found \subseteq TokenIds
      /\ issued \in Nat
  BY CallerIs
<1>2. /\ UNCHANGED <<disk, locks, hasDirectory, lapsed, crashes, current, superseded, presented>> /\ u.at = "callback"
  BY DEF Callback, Unchanged, HistoryKept
<1>3. presented' \subseteq TokenIds \X StoreCallers
  BY <1>2 DEF StoreInv, StoreShape
<1>4. /\ Working(u) /\ u.op \in {"authorize", "reset"} /\ Holder = c /\ u.result = 0 /\ ~Clears(u)
  BY <1>1, <1>2 DEF CallerInv, Alone, Working, Waiting, Writing, Reading
<1>5. CASE users' = [users EXCEPT ![c] = Leaving(c, u, 0)] /\ UNCHANGED issued
  BY <1>2, <1>5, CallerLeaves, ZeroIs
<1>6. ASSUME issued < MaxTokens, issued' = issued + 1,
             NEW patch, patch = [tokens |-> [NoTokens EXCEPT !.id = issued', !.refresh = issued'], client |-> u.client],
             users' = [users EXCEPT ![c] = ReadsFor([u EXCEPT !.nulls = FALSE, !.patch = patch], "expected")]
      PROVE  StoreInv'
  <2>1. issued' \in TokenIds
    BY <1>1, <1>6 DEF TokenIds
  <2>2. PICK t : t = [NoTokens EXCEPT !.id = issued', !.refresh = issued']
    OBVIOUS
  <2>3. t \in Token /\ t.id = issued'
    BY <2>1, <2>2, NewTokensIs
  <2>4. patch = [tokens |-> t, client |-> u.client] /\ u.client \in ClientIds
    BY <1>1, <1>6, <2>2 DEF User
  <2>5. patch \in Snapshot /\ patch.tokens.id = issued'
    BY <2>3, <2>4 DEF Snapshot
  <2>6. PICK z : z = [u EXCEPT !.nulls = FALSE, !.patch = patch]
    OBVIOUS
  <2>7. z \in User /\ z.op = u.op /\ z.patch = patch /\ z.cleared = u.cleared /\ z.result = u.result
    BY <1>1, <2>5, <2>6 DEF User
  <2>8. PICK y : y = ReadsFor(z, "expected")
    OBVIOUS
  <2>9. /\ y \in User /\ y.op = u.op /\ y.at = "reading" /\ y.why = "expected" /\ y.stage = 0 /\ y.view = NewUser.view
        /\ y.patch = patch /\ y.result = 0 /\ y.cleared = u.cleared
    BY <1>1, <1>4, <2>7, <2>8, ReadsForIs
  <2>10. NotOnDisk(y, disk, issued') /\ ~Clears(y)
    BY <1>4, <1>6, <2>5, <2>9, IssuedNotOnDisk DEF Clears
  <2>11. CallerInv(c, y, disk, Holder, Found, hasDirectory, issued')
    BY <1>4, <2>9, <2>10, ReadingInv
  <2>12. users' = [users EXCEPT ![c] = y]
    BY <1>6, <2>6, <2>8
  <2>13. issued < MaxTokens /\ issued' = issued + 1 /\ y.patch.tokens.id = issued'
    BY <1>6, <2>5, <2>9
  <2>14. UNCHANGED <<disk, locks, hasDirectory, lapsed, crashes, current, superseded>>
    BY <1>2
  <2>15. presented' \subseteq TokenIds \X StoreCallers
    BY <1>3
  <2>16. QED
    BY <2>11, <2>12, <2>13, <2>14, <2>15, CallerIssued
<1>7. QED
  BY <1>5, <1>6 DEF Callback, SetUser

LEMMA RegisterKeeps == ASSUME StoreInv, NEW c \in StoreCallers, Register(c) PROVE StoreInv'
<1> DEFINE u == users[c]
           kept == u.basis.client
<1>1. /\ u \in User /\ CallerInv(c, u, disk, Holder, Found, hasDirectory, issued) /\ Found \subseteq TokenIds
  BY CallerIs
<1>2. /\ UNCHANGED <<disk, locks, hasDirectory, lapsed, issued, crashes, current, superseded, presented>>
      /\ u.at = "register"
  BY DEF Register, Unchanged, HistoryKept
<1>3. /\ Working(u) /\ u.op \in {"authorize", "reset"} /\ Holder = c /\ u.result = 0 /\ ~Clears(u)
  BY <1>1, <1>2 DEF CallerInv, Alone, Working, Waiting, Writing, Reading
<1>4. CASE users' = [users EXCEPT ![c] = Leaving(c, u, 0)]
  BY <1>2, <1>4, CallerLeaves, ZeroIs
<1>5. kept \in ClientIds
  BY <1>1 DEF User, Snapshot
<1>6. ASSUME NEW client \in IF kept # 0 THEN {kept, 2} ELSE {1},
             NEW pending, pending = IF HasTokens(u.basis) THEN kept ELSE client,
             users' = [users EXCEPT ![c] = ReadsFor([u EXCEPT !.client = client, !.nulls = pending = 0,
                                                     !.patch = [tokens |-> NoTokens, client |-> pending]], "expected")]
      PROVE  StoreInv'
  <2>1. client \in ClientIds /\ pending \in ClientIds
    BY <1>5, <1>6 DEF ClientIds
  <2>2. PICK patch : patch = [tokens |-> NoTokens, client |-> pending]
    OBVIOUS
  <2>3. patch \in Snapshot /\ ~HasTokens(patch)
    BY <2>1, <2>2, StoredValues DEF Snapshot, HasTokens
  <2>4. PICK b \in BOOLEAN : b = (pending = 0)
    OBVIOUS
  <2>5. PICK z : z = [u EXCEPT !.client = client, !.nulls = b, !.patch = patch]
    OBVIOUS
  <2>6. z \in User /\ z.op = u.op /\ z.patch = patch /\ z.cleared = u.cleared /\ z.result = u.result
    BY <1>1, <2>1, <2>3, <2>5 DEF User
  <2>7. PICK y : y = ReadsFor(z, "expected")
    OBVIOUS
  <2>8. /\ y \in User /\ y.op = u.op /\ y.at = "reading" /\ y.why = "expected" /\ y.stage = 0 /\ y.view = NewUser.view
        /\ y.patch = patch /\ y.result = 0 /\ y.cleared = u.cleared
    BY <1>1, <1>3, <2>6, <2>7, ReadsForIs
  <2>9. NotOnDisk(y, disk, issued) /\ SameTokens(u, y, disk) /\ ~Clears(y)
    BY <1>3, <2>3, <2>8 DEF NotOnDisk, SameTokens, Clears
  <2>10. CallerInv(c, y, disk, Holder, Found, hasDirectory, issued)
    BY <1>3, <2>8, <2>9, ReadingInv
  <2>11. users' = [users EXCEPT ![c] = y]
    BY <1>6, <2>2, <2>4, <2>5, <2>7
  <2>12. QED
    BY <1>2, <2>9, <2>10, <2>11, CallerAlone
<1>7. QED
  BY <1>4, <1>6 DEF Register, SetUser

LEMMA InspectSlotKeeps == ASSUME StoreInv, NEW c \in StoreCallers, InspectSlot(c) PROVE StoreInv'
<1> DEFINE u == users[c]
           slot == Slot(disk)
           entry == Entry(u.patch, u.nulls, FirstEntry(slot), slot)
<1>1. /\ u \in User /\ CallerInv(c, u, disk, Holder, Found, hasDirectory, issued) /\ FilesInv(disk, hasDirectory)
      /\ hasDirectory \in BOOLEAN
  BY CallerIs DEF StoreInv, StoreShape
<1>2. /\ UNCHANGED <<disk, locks, hasDirectory, lapsed, issued, crashes, current, superseded, presented>>
      /\ u.at = "inspect"
  BY DEF InspectSlot, Unchanged, HistoryKept
<1>3. u.op = "import" /\ ~hasDirectory /\ HasTokens(u.patch) /\ u.result = 0
  BY <1>1, <1>2 DEF CallerInv, Alone
<1>4. Unwritten(u) /\ Working(u) /\ ~Clears(u)
  BY <1>2, <1>3 DEF Unwritten, Working, Waiting, Reading, Clears
<1>5. slot = disk /\ disk \in [Places -> Snapshot]
  <2>1. hasDirectory = FALSE
    BY <1>1, <1>3
  <2>2. QED
    BY <1>1, <2>1, SlotIsAll DEF FilesInv
<1>6. CASE users' = [users EXCEPT ![c] = Leaving(c, u, 0)]
  BY <1>2, <1>6, CallerLeaves, ZeroIs
<1>7. CASE users' = [users EXCEPT ![c] = [u EXCEPT !.at = "write_vault", !.patch = entry, !.view = NewUser.view]]
  <2>1. PICK previous \in Snapshot : previous = FirstEntry(disk)
    BY <1>5 DEF FirstEntry, Places
  <2>2. entry = Entry(u.patch, u.nulls, previous, disk)
    BY <1>5, <2>1
  <2>3. u.patch \in Snapshot /\ u.nulls \in BOOLEAN
    BY <1>1 DEF User
  <2>4. u.patch.tokens.id > 2 /\ \A p \in Places : disk[p].tokens.id # u.patch.tokens.id
    BY <1>1, <1>3, <1>4 DEF CallerInv, NotOnDisk
  <2>5. entry \in Snapshot
    BY <1>1, <1>3, <2>2, <2>3, <2>4, EntryReady
  <2>6. PICK w, y : /\ w \in [Places -> Snapshot] /\ w = NewUser.view
                    /\ y = [u EXCEPT !.at = "write_vault", !.patch = entry, !.view = w]
    BY NewUserIs
  <2>7. /\ y \in User /\ y.op = u.op /\ y.at = "write_vault" /\ y.patch = entry /\ y.cleared = u.cleared
        /\ y.result = u.result /\ y.seen = u.seen
    BY <1>1, <2>5, <2>6 DEF User
  <2>8. CallerInv(c, y, disk, Holder, Found, hasDirectory, issued) /\ SameTokens(u, y, disk)
    BY <1>3, <1>4, <2>2, <2>7, EntryMade
  <2>9. users' = [users EXCEPT ![c] = y]
    BY <1>7, <2>6
  <2>10. QED
    BY <1>2, <2>8, <2>9, CallerAlone
<1>8. QED
  BY <1>6, <1>7 DEF InspectSlot, SetUser

LEMMA CallFinishKeeps == ASSUME StoreInv, NEW c \in StoreCallers, Finish(c) PROVE StoreInv'
<1> DEFINE u == users[c]
<1>1. /\ u \in User /\ CallerInv(c, u, disk, Holder, Found, hasDirectory, issued) /\ LockShape
      /\ Found \subseteq TokenIds
  BY CallerIs
<1>2. /\ UNCHANGED <<disk, hasDirectory, lapsed, issued, crashes, current, superseded, presented>>
      /\ u.at = "finish"
      /\ locks' = [l \in DOMAIN locks |-> IF locks[l] = c /\ l # "refresh" THEN Free ELSE locks[l]]
  BY DEF Finish, Unchanged, HistoryKept
<1>3. Holder' = Holder /\ LockShape'
  BY <1>1, <1>2 DEF Holder, LockShape
<1>4. Working(u) /\ Writing(u) /\ ~Waiting(u) /\ Holder = c /\ u.result = 0
  BY <1>1, <1>2 DEF CallerInv, Alone, Working, Waiting, Writing, Reading
<1>5. u.patch.tokens.id \in TokenIds
  BY <1>1 DEF User, Snapshot, Token
<1>6. ASSUME NEW r \in {0, u.patch.tokens.id}, users' = [users EXCEPT ![c] = Leaving(c, u, r)] PROVE StoreInv'
  <2>1. r \in TokenIds
    BY <1>5, ZeroIs
  <2>2. u.op = "header" /\ r # 0 => r \in u.seen
    BY <1>1, <1>4 DEF CallerInv, Alone
  <2>3. PICK y : y = Leaving(c, u, r)
    OBVIOUS
  <2>4. CallerInv(c, y, disk, Holder, Found, hasDirectory, issued) /\ SameTokens(u, y, disk)
    BY <1>1, <2>1, <2>2, <2>3, LeavingInv
  <2>5. users' = [users EXCEPT ![c] = y]
    BY <1>6, <2>3
  <2>6. QED
    BY <1>2, <1>3, <2>4, <2>5, CallerLocks
<1>7. CASE u.op = "reset" /\ users' = [users EXCEPT ![c] = [u EXCEPT !.cleared = TRUE, !.at = "register"]]
  <2>1. PICK y : y = [u EXCEPT !.cleared = TRUE, !.at = "register"]
    OBVIOUS
  <2>2. y \in User /\ y.op = "reset" /\ y.at = "register" /\ y.cleared /\ y.result = 0
    <3>1. y \in User /\ y.op = u.op /\ y.at = "register" /\ y.cleared /\ y.result = u.result
      BY <1>1, <2>1 DEF User
    <3>2. QED
      BY <1>4, <1>7, <3>1
  <2>3. ~Unwritten(y) /\ ~Waiting(y) /\ ~Reading(y) /\ ~Writing(y) /\ ~Clears(y)
    BY <2>2 DEF Unwritten, Waiting, Reading, Writing, Clears
  <2>4. CallerInv(c, y, disk, Holder', Found, hasDirectory, issued) /\ SameTokens(u, y, disk)
    BY <1>1, <1>3, <1>4, <2>2, <2>3 DEF CallerInv, Alone, ReadSoFar, Knows, Hears, NotOnDisk, SameTokens
  <2>5. QED
    BY <1>2, <1>3, <1>7, <2>1, <2>4, CallerLocks
<1>8. CASE ~Clears(u) /\ u.op \in {"authorize", "reset"} /\ users' = [users EXCEPT ![c] = ReadsFor(u, "pending")]
  <2>1. PICK y : y = ReadsFor(u, "pending")
    OBVIOUS
  <2>2. /\ y \in User /\ y.op = u.op /\ y.at = "reading" /\ y.why = "pending" /\ y.stage = 0 /\ y.view = NewUser.view
        /\ y.cleared = u.cleared /\ y.result = u.result
    BY <1>1, <2>1, ReadsForIs
  <2>3. ~Unwritten(y) /\ y.at # "write_vault" /\ ~Clears(y)
    BY <1>8, <2>2 DEF Unwritten, Clears, Reading
  <2>4. NotOnDisk(y, disk, issued) /\ SameTokens(u, y, disk)
    BY <2>3 DEF NotOnDisk, SameTokens
  <2>5. CallerInv(c, y, disk, Holder', Found, hasDirectory, issued)
    BY <1>3, <1>4, <1>8, <2>2, <2>3, <2>4, ReadingInv
  <2>6. QED
    BY <1>2, <1>3, <1>8, <2>1, <2>4, <2>5, CallerLocks
<1>9. CASE Clears(u) /\ u.op = "authorize"
  BY <1>9 DEF Clears
<1>10. QED
  BY <1>6, <1>7, <1>8, <1>9 DEF Finish, SetUser, Clears

LEMMA CancelKeeps == ASSUME StoreInv, NEW c \in StoreCallers, Cancel(c) PROVE StoreInv'
<1> DEFINE u == users[c]
<1>1. CallerInv(c, u, disk, Holder, Found, hasDirectory, issued)
  BY CallerIs
<1>2. UNCHANGED <<disk, locks, hasDirectory, lapsed, issued, crashes, current, superseded, presented>>
  BY DEF Cancel, Unchanged, HistoryKept
<1>3. PICK z : z = IF Blocking(u) THEN u ELSE Leaving(c, u, 0)
  OBVIOUS
<1>4. CallerInv(c, z, disk, Holder, Found, hasDirectory, issued) /\ SameTokens(u, z, disk)
  <2>1. SameTokens(u, u, disk)
    BY DEF SameTokens
  <2>2. PICK l : l = Leaving(c, u, 0)
    OBVIOUS
  <2>3. CallerInv(c, l, disk, Holder, Found, hasDirectory, issued) /\ SameTokens(u, l, disk)
    BY <1>1, <2>2, LeavingInv, ZeroIs
  <2>4. QED
    BY <1>1, <1>3, <2>1, <2>2, <2>3
<1>5. PICK y : y = [z EXCEPT !.cancelled = TRUE]
  OBVIOUS
<1>6. /\ CallerInv(c, y, disk, Holder, Found, hasDirectory, issued)
      /\ y.patch = z.patch /\ y.at = z.at /\ y.why = z.why
  BY <1>4, <1>5, CancelledInv
<1>7. SameTokens(u, y, disk)
  <2>1. Unwritten(y) = Unwritten(z)
    BY <1>6 DEF Unwritten, Reading
  <2>2. QED
    BY <1>4, <1>6, <2>1 DEF SameTokens
<1>8. users' = [users EXCEPT ![c] = y]
  BY <1>3, <1>5 DEF Cancel, SetUser
<1>9. QED
  BY <1>2, <1>6, <1>7, <1>8, CallerAlone

LEMMA CrashKeeps == ASSUME StoreInv, NEW c \in StoreCallers, Crash(c) PROVE StoreInv'
<1> DEFINE u == users[c]
<1>1. u \in User /\ CallerInv(c, u, disk, Holder, Found, hasDirectory, issued) /\ issued \in TokenIds /\ issued \in Nat
  BY CallerIs
<1>2. /\ UNCHANGED <<disk, locks, hasDirectory, lapsed, issued, current, superseded, presented>>
      /\ users' = [users EXCEPT ![c] = [NewUser EXCEPT !.op = u.op, !.at = "crashed"]]
  BY DEF Crash, Unchanged, HistoryKept, SetUser
<1>3. crashes' \in 0..MaxCrashes
  BY DEF Crash, StoreInv, StoreShape
<1>4. PICK y : y = [NewUser EXCEPT !.op = u.op, !.at = "crashed"]
  OBVIOUS
<1>5. y \in User /\ y.op = u.op /\ y.at = "crashed" /\ y.result = 0
  <2>1. ASSUME NEW b \in User, y = [b EXCEPT !.op = u.op, !.at = "crashed"]
        PROVE  y \in User /\ y.op = u.op /\ y.at = "crashed" /\ y.result = b.result
    BY <1>1, <2>1 DEF User
  <2>2. NewUser.result = 0
    BY DEF NewUser
  <2>3. QED
    BY <1>4, <2>1, <2>2, NewUserIs
<1>6. ~Unwritten(y) /\ Waiting(y) /\ ~Reading(y) /\ ~Writing(y) /\ ~Working(y)
  BY <1>5 DEF Unwritten, Waiting, Reading, Writing, Working
<1>7. CallerInv(c, y, disk, Holder, Found, hasDirectory, issued) /\ SameTokens(u, y, disk)
  BY <1>1, <1>5, <1>6 DEF CallerInv, Alone, ReadSoFar, Knows, Hears, NotOnDisk, SameTokens
<1>8. \A e \in StoreCallers \ {c} : Apart(y, users[e]) /\ Apart(users[e], y)
  BY <1>7, CallerIs, StaysApart DEF StoreInv, CallerInv
<1>9. Holder' = Holder /\ LockShape' /\ issued' \in TokenIds /\ issued <= issued'
  BY <1>1, <1>2, CallerIs DEF Holder, LockShape
<1>10. lapsed' \subseteq TokenIds /\ presented' \subseteq TokenIds \X StoreCallers
  BY <1>2 DEF StoreInv, StoreShape
<1>11. CallerInv(c, y, disk, Holder', Found, hasDirectory, issued')
  BY <1>2, <1>7, <1>9
<1>12. QED
  BY <1>2, <1>3, <1>4, <1>8, <1>9, <1>10, <1>11, CallerMoves

LEMMA CleanUpKeeps == ASSUME StoreInv, CleanUp PROVE StoreInv'
<1>1. PICK c \in StoreCallers :
        /\ users[c].at = "crashed" /\ locks' = [l \in DOMAIN locks |-> IF locks[l] = c THEN Free ELSE locks[l]]
        /\ UNCHANGED <<disk, users, hasDirectory, lapsed, issued, crashes, current, superseded, presented>>
  BY DEF CleanUp, Unchanged, HistoryKept
<1> DEFINE u == users[c]
<1>2. u \in User /\ CallerInv(c, u, disk, Holder, Found, hasDirectory, issued) /\ LockShape
  BY CallerIs
<1>3. LockShape' /\ \A e \in StoreCallers \ {c} : Holder = e => Holder' = e
  BY <1>1, <1>2 DEF Holder, LockShape
<1>4. ~Working(u)
  BY <1>1 DEF Working, Waiting
<1>5. CallerInv(c, u, disk, Holder', Found, hasDirectory, issued) /\ SameTokens(u, u, disk)
  BY <1>2, <1>4 DEF CallerInv, SameTokens
<1>6. users' = [users EXCEPT ![c] = u]
  BY <1>1 DEF StoreInv, StoreShape
<1>7. QED
  BY <1>1, <1>3, <1>5, <1>6, CallerLocks

LEMMA LapseKeeps == ASSUME StoreInv, Lapse PROVE StoreInv'
<1>1. UNCHANGED <<disk, locks, users, hasDirectory, issued, crashes, current, superseded, presented>>
  BY DEF Lapse, Unchanged, HistoryKept
<1>2. lapsed' \subseteq TokenIds
  BY DEF Lapse, StoreInv, StoreShape, TokenIds
<1>3. StoreShape'
  BY <1>1, <1>2 DEF StoreInv, StoreShape
<1>4. QED
  BY <1>1, <1>3 DEF StoreInv

-----------------------------------------------------------------------------
(* The files change.                                                       *)

(* Who does not hold the transaction hears of what can be found now.       *)
Hearing(u, y, g) ==
  \E s \in SUBSET TokenIds :
    /\ u.seen \subseteq s /\ (Reading(u) /\ u.why = "header" => g \subseteq s)
    /\ y = [u EXCEPT !.seen = s]

LEMMA Overhears ==
  ASSUME NEW e, NEW u, NEW d, NEW h, NEW f, NEW has, NEW n, CallerInv(e, u, d, h, f, has, n), h # e,
         NEW d2, NEW g, NEW y, Hearing(u, y, g),
         HasTokens(u.patch) /\ Unwritten(u) => \A p \in Places : d2[p].tokens.id # u.patch.tokens.id,
         d2["directory"].tokens = d["directory"].tokens \/ d2["directory"].tokens.id \in g \cup {0}
  PROVE  CallerInv(e, y, d2, h, g, has, n) /\ y.patch = u.patch /\ y.at = u.at /\ y.why = u.why
<1>1. u \in User /\ Alone(u) /\ ~Working(u) /\ ReadSoFar(u, has) /\ Hears(u, d, f) /\ NotOnDisk(u, d, n)
      /\ (u.op = "import" => ~has)
  BY DEF CallerInv, Alone
<1>2. PICK s \in SUBSET TokenIds : /\ u.seen \subseteq s /\ (Reading(u) /\ u.why = "header" => g \subseteq s)
                                   /\ y = [u EXCEPT !.seen = s]
  BY DEF Hearing
<1>3. /\ y \in User /\ y.op = u.op /\ y.at = u.at /\ y.why = u.why /\ y.stage = u.stage /\ y.view = u.view
      /\ y.basis = u.basis /\ y.patch = u.patch /\ y.cleared = u.cleared /\ y.result = u.result /\ y.seen = s
  BY <1>1, <1>2 DEF User
<1>4. /\ Reading(y) = Reading(u) /\ Waiting(y) = Waiting(u) /\ Writing(y) = Writing(u) /\ Unwritten(y) = Unwritten(u)
      /\ Clears(y) = Clears(u) /\ Working(y) = Working(u)
  BY <1>3 DEF Reading, Waiting, Writing, Unwritten, Clears, Working
<1>5. ~Writing(u) /\ u.at # "write_vault" /\ (Reading(u) => u.why = "header") /\ (Waiting(u) \/ Reading(u))
  BY <1>1 DEF Working, Writing, Waiting, Reading
<1>6. Alone(y)
  BY <1>1, <1>2, <1>3, <1>4, <1>5 DEF Alone
<1>7. ReadSoFar(y, has)
  BY <1>1, <1>3 DEF ReadSoFar
<1>8. Knows(y, d2, has)
  <2>1. y.at \notin {"request", "write_vault", "directory_lock", "write_tokens", "write_client"}
    BY <1>3, <1>5 DEF Waiting, Reading
  <2>2. QED
    BY <1>3, <1>4, <1>5, <2>1 DEF Knows
<1>9. Hears(y, d2, g)
  <2>1. SUFFICES ASSUME Reading(u) PROVE Hears(y, d2, g)
    BY <1>4 DEF Hears
  <2>2. u.why = "header" /\ g \subseteq s
    BY <1>2, <1>5, <2>1
  <2>3. ASSUME NEW t, HeardOf(u.view, t, u.seen) PROVE HeardOf(u.view, t, s)
    BY <1>2, <2>3 DEF HeardOf
  <2>4. ASSUME HeardOf(u.view, d["directory"].tokens, u.seen) PROVE HeardOf(u.view, d2["directory"].tokens, s)
    <3>1. CASE d2["directory"].tokens = d["directory"].tokens
      BY <2>3, <2>4, <3>1
    <3>2. CASE d2["directory"].tokens.id \in g \cup {0}
      <4>1. HeardOf(u.view, d["directory"].tokens, s)
        BY <2>3, <2>4
      <4>2. QED
        BY <2>2, <3>2, <4>1 DEF HeardOf
    <3>3. QED
      BY <3>1, <3>2
  <2>5. /\ u.at = "reading" /\ u.stage = 1 => HeardOf(u.view, d["directory"].tokens, u.seen)
        /\ (u.at = "reading" /\ u.stage = 2) \/ u.at = "decide" => HeardOf(u.view, u.view["directory"].tokens, u.seen)
    BY <1>1, <2>1, <2>2 DEF Hears
  <2>6. QED
    BY <1>3, <2>2, <2>3, <2>4, <2>5 DEF Hears
<1>10. NotOnDisk(y, d2, n)
  BY <1>1, <1>3, <1>4, <1>5 DEF NotOnDisk
<1>11. QED
  BY <1>1, <1>3, <1>4, <1>6, <1>7, <1>8, <1>9, <1>10 DEF CallerInv

(* One who holds the transaction changes the files.                        *)
LEMMA DiskMoves ==
  ASSUME StoreInv, NEW c \in StoreCallers, Holder = c,
         UNCHANGED <<locks, hasDirectory, lapsed, issued, crashes, presented>>,
         current' \subseteq TokenIds, superseded' \subseteq TokenIds,
         FilesInv(disk', hasDirectory), CommitInv(disk', current', superseded'),
         DOMAIN users' = StoreCallers, users' = [e \in StoreCallers |-> users'[e]],
         CallerInv(c, users'[c], disk', c, Found', hasDirectory, issued),
         ~Unwritten(users'[c]), users'[c].at # "write_vault",
         \A e \in StoreCallers \ {c} : Hearing(users[e], users'[e], Found'),
         disk["directory"].tokens = disk'["directory"].tokens \/ disk'["directory"].tokens.id \in Found' \cup {0},
         \A p \in Places : \/ disk'[p].tokens.id = 0
                           \/ \E q \in Places : disk'[p].tokens.id = disk[q].tokens.id
                           \/ users[c].at = "write_vault" /\ disk'[p].tokens.id = users[c].patch.tokens.id
  PROVE  StoreInv'
<1>1. /\ CallerInv(c, users[c], disk, c, Found, hasDirectory, issued) /\ issued \in Nat
  BY CallerIs
<1>2. \A p \in Places : disk[p].tokens.id <= issued /\ disk[p].tokens.id \in Nat
  BY DEF StoreInv, FilesInv, Snapshot, Token, TokenIds
<1>3. users[c].at = "write_vault" => users[c].patch.tokens.id = 0 \/ users[c].patch.tokens.id <= issued
  BY <1>1 DEF CallerInv, NotOnDisk, HasTokens
<1>4. \A p \in Places : disk'[p].tokens.id <= issued
  BY <1>1, <1>2, <1>3
<1>5. ASSUME NEW e \in StoreCallers \ {c}
      PROVE  /\ CallerInv(e, users'[e], disk', c, Found', hasDirectory, issued)
             /\ users'[e].patch = users[e].patch /\ users'[e].at = users[e].at /\ users'[e].why = users[e].why
  <2>1. CallerInv(e, users[e], disk, c, Found, hasDirectory, issued) /\ e # c
    BY CallerIs
  <2>2. ASSUME HasTokens(users[e].patch), Unwritten(users[e])
        PROVE  \A p \in Places : disk'[p].tokens.id # users[e].patch.tokens.id
    <3>1. \A q \in Places : disk[q].tokens.id # users[e].patch.tokens.id
      BY <2>1, <2>2 DEF CallerInv, NotOnDisk
    <3>2. users[e].patch.tokens.id # 0
      BY <2>2 DEF HasTokens
    <3>3. users[c].at = "write_vault" => users[e].patch.tokens.id # users[c].patch.tokens.id
      BY <2>1, <2>2 DEF StoreInv, Apart
    <3>4. QED
      BY <3>1, <3>2, <3>3
  <2>3. PICK y, d2, g : y = users'[e] /\ d2 = disk' /\ g = Found'
    OBVIOUS
  <2>4. Hearing(users[e], y, g) /\ (d2["directory"].tokens = disk["directory"].tokens \/ d2["directory"].tokens.id \in g \cup {0})
    BY <2>3
  <2>5. HasTokens(users[e].patch) /\ Unwritten(users[e]) => \A p \in Places : d2[p].tokens.id # users[e].patch.tokens.id
    BY <2>2, <2>3
  <2>6. CallerInv(e, y, d2, c, g, hasDirectory, issued) /\ y.patch = users[e].patch /\ y.at = users[e].at
        /\ y.why = users[e].why
    BY <2>1, <2>4, <2>5, Overhears
  <2>7. QED
    BY <2>3, <2>6
<1>6. \A e \in StoreCallers : CallerInv(e, users'[e], disk', c, Found', hasDirectory, issued)
  BY <1>1, <1>5
<1>7. ASSUME NEW e \in StoreCallers, NEW k \in StoreCallers, e # k PROVE Apart(users'[e], users'[k])
  <2>1. CASE e = c
    BY <2>1 DEF Apart
  <2>2. CASE k = c
    BY <2>2 DEF Apart
  <2>3. CASE e # c /\ k # c
    <3>1. Unwritten(users'[e]) = Unwritten(users[e]) /\ Unwritten(users'[k]) = Unwritten(users[k])
      BY <1>5, <2>3 DEF Unwritten, Reading
    <3>2. Apart(users[e], users[k])
      BY <1>7 DEF StoreInv
    <3>3. QED
      BY <1>5, <2>3, <3>1, <3>2 DEF Apart
  <2>4. QED
    BY <2>1, <2>2, <2>3
<1>8. StoreShape'
  BY DEF StoreInv, StoreShape
<1>9. Holder' = c /\ hasDirectory' = hasDirectory /\ issued' = issued
  BY DEF Holder
<1>10. QED
  BY <1>4, <1>6, <1>7, <1>8, <1>9 DEF StoreInv, Holder, Found

LEMMA InformedIs ==
  ASSUME StoreInv, Found' \subseteq TokenIds, NEW c \in StoreCallers, NEW z \in User, users' = Informed(c, z)
  PROVE  /\ DOMAIN users' = StoreCallers /\ users' = [e \in StoreCallers |-> users'[e]]
         /\ users'[c] = [z EXCEPT !.seen = IF z.seen = {} THEN {} ELSE z.seen \cup Found']
         /\ \A e \in StoreCallers \ {c} : Hearing(users[e], users'[e], Found')
<1>1. Findable' = Found'
  BY DEF Found, Findable, FindableOn, Ordered, OrderedOn
<1>2. ASSUME NEW x \in User
      PROVE  \E s \in SUBSET TokenIds : s = (IF x.seen = {} THEN {} ELSE x.seen \cup Found')
               /\ [x EXCEPT !.seen = IF @ = {} THEN {} ELSE @ \cup Findable'] = [x EXCEPT !.seen = s]
  BY <1>1 DEF User
<1>3. users'[c] = [z EXCEPT !.seen = IF @ = {} THEN {} ELSE @ \cup Findable']
      /\ \A e \in StoreCallers \ {c} :
           users'[e] = [users[e] EXCEPT !.seen = IF @ = {} THEN {} ELSE @ \cup Findable']
  BY DEF Informed
<1>4. DOMAIN users' = StoreCallers /\ users' = [e \in StoreCallers |-> users'[e]]
  BY DEF Informed
<1>5. ASSUME NEW e \in StoreCallers \ {c} PROVE Hearing(users[e], users'[e], Found')
  <2>1. users[e] \in User /\ CallerInv(e, users[e], disk, Holder, Found, hasDirectory, issued) /\ Found # {}
    BY CallerIs
  <2>2. PICK s \in SUBSET TokenIds : s = (IF users[e].seen = {} THEN {} ELSE users[e].seen \cup Found')
          /\ [users[e] EXCEPT !.seen = IF @ = {} THEN {} ELSE @ \cup Findable'] = [users[e] EXCEPT !.seen = s]
    BY <1>2, <2>1
  <2>3. users'[e] = [users[e] EXCEPT !.seen = s]
    BY <1>3, <2>2
  <2>4. Reading(users[e]) /\ users[e].why = "header" => users[e].seen # {}
    BY <2>1 DEF CallerInv, Hears
  <2>5. QED
    BY <2>2, <2>3, <2>4 DEF Hearing
<1>6. users'[c] = [z EXCEPT !.seen = IF z.seen = {} THEN {} ELSE z.seen \cup Found']
  BY <1>1, <1>3
<1>7. QED
  BY <1>4, <1>5, <1>6

(* The one who writes goes on to the next file.                            *)
MovesOn(u, y, at, s) == y = [u EXCEPT !.at = at, !.seen = s]

LEMMA MovedOn ==
  ASSUME NEW u \in User, NEW at \in {"directory_lock", "write_client", "finish"}, NEW s \in SUBSET TokenIds,
         NEW y, MovesOn(u, y, at, s)
  PROVE  /\ y \in User /\ y.op = u.op /\ y.at = at /\ y.patch = u.patch /\ y.cleared = u.cleared
         /\ y.result = u.result /\ y.seen = s
<1>1. PICK z : z = [u EXCEPT !.at = at]
  OBVIOUS
<1>2. z \in User
  BY <1>1 DEF User
<1>3. y = [z EXCEPT !.seen = s]
  BY <1>1 DEF User, MovesOn
<1>4. y \in User
  BY <1>2, <1>3 DEF User
<1>5. QED
  BY <1>4 DEF User, MovesOn

\* What it has written before it goes on to at.
HasWritten(u, at, s, d2, has) ==
  /\ u.at \in {"write_vault", "clear_vault", "write_tokens", "write_client"}
  /\ u.seen \subseteq s
  /\ u.at = "write_vault" /\ u.op = "header" => u.patch.tokens.id \in s
  /\ at # "finish" => has
  /\ at = "directory_lock" => IF Clears(u) THEN d2["exact"] = Blank /\ d2["alias"] = Blank
                               ELSE HasTokens(u.patch) => d2["exact"].tokens = u.patch.tokens

LEMMA WroteFile ==
  ASSUME NEW c, NEW u, NEW d, NEW f, NEW has, NEW n, CallerInv(c, u, d, c, f, has, n),
         NEW at \in {"directory_lock", "write_client", "finish"}, NEW s \in SUBSET TokenIds,
         NEW y, MovesOn(u, y, at, s), NEW d2, NEW g, HasWritten(u, at, s, d2, has)
  PROVE  CallerInv(c, y, d2, c, g, has, n) /\ ~Unwritten(y) /\ y.at # "write_vault"
<1>1. u \in User /\ Alone(u) /\ Working(u) /\ u.result = 0 /\ (u.op = "import" => ~has)
  BY DEF CallerInv, Alone, Working, Waiting, Reading, HasWritten
<1>2. /\ y \in User /\ y.op = u.op /\ y.at = at /\ y.patch = u.patch /\ y.cleared = u.cleared /\ y.result = u.result
      /\ y.seen = s
  BY <1>1, MovedOn
<1>3. Writing(y) /\ Working(y) /\ ~Waiting(y) /\ ~Reading(y) /\ ~Unwritten(y) /\ Clears(y) = Clears(u)
  BY <1>2 DEF Writing, Working, Waiting, Reading, Unwritten, Clears
<1>4. u.op = "header" => u.seen # {} /\ (u.at \in {"write_tokens", "write_client"} => u.patch.tokens.id \in u.seen)
                         /\ u.at # "clear_vault"
  BY <1>1 DEF Alone, Clears, Writing
<1>5. Alone(y)
  BY <1>1, <1>2, <1>3, <1>4 DEF Alone, HasWritten
<1>6. Knows(y, d2, has)
  BY <1>2, <1>3 DEF Knows, HasWritten
<1>7. QED
  BY <1>1, <1>2, <1>3, <1>5, <1>6 DEF CallerInv, ReadSoFar, Hears, NotOnDisk

LEMMA WriteVaultKeeps == ASSUME StoreInv, NEW c \in StoreCallers, WriteVault(c) PROVE StoreInv'
<1> DEFINE u == users[c]
           before == OnDisk.tokens
           now == u.patch.tokens
           retired == before.refresh # 0 /\ now.refresh # before.refresh
<1>1. /\ u \in User /\ CallerInv(c, u, disk, Holder, Found, hasDirectory, issued) /\ hasDirectory \in BOOLEAN
      /\ FilesInv(disk, hasDirectory) /\ CommitInv(disk, current, superseded) /\ superseded \subseteq TokenIds
  BY CallerIs DEF StoreInv, StoreShape
<1>2. /\ UNCHANGED <<locks, hasDirectory, lapsed, issued, crashes, presented>> /\ u.at = "write_vault"
      /\ current' = {now.id}
      /\ superseded' = (IF retired THEN superseded \cup {before.refresh} ELSE superseded) \ {now.refresh}
  BY DEF WriteVault, Unchanged
<1>3. PICK alias \in {disk["alias"], Blank} : disk' = [disk EXCEPT !["exact"] = u.patch, !["alias"] = alias]
  BY DEF WriteVault
<1>4. u.patch \in Snapshot /\ now.id \in TokenIds
  BY <1>1 DEF User, Snapshot, Token
<1>5. Ready(now, disk) /\ Working(u) /\ Holder = c /\ ~Clears(u) /\ u.result = 0
  BY <1>1, <1>2 DEF CallerInv, Alone, Knows, Working, Waiting, Reading, Writing
<1>6. PICK gone : gone = IF retired THEN {before.refresh} ELSE {}
  OBVIOUS
<1>7. superseded' = (superseded \cup gone) \ {now.refresh}
  BY <1>2, <1>6
<1>8. gone = {} \/ (gone = {Select(disk).tokens.refresh} /\ Select(disk).tokens.refresh # 0)
  BY <1>6 DEF OnDisk
<1>9. FilesInv(disk', hasDirectory) /\ CommitInv(disk', {now.id}, (superseded \cup gone) \ {now.refresh})
  BY <1>1, <1>3, <1>4, <1>5, <1>8, VaultWritten
<1>10. CommitInv(disk', current', superseded')
  BY <1>2, <1>7, <1>9
<1>11. disk \in [Places -> Snapshot] /\ Blank \in Snapshot /\ Blank.tokens.id = 0
  BY <1>1, StoredValues DEF FilesInv, HasTokens
<1>12. disk'["exact"] = u.patch /\ disk'["alias"] = alias /\ disk'["directory"] = disk["directory"]
  BY <1>3, <1>11 DEF Places
<1>13. Select(disk).tokens.refresh \in TokenIds
  <2>1. Select(disk) \in Snapshot \cup {Conflict}
    BY <1>1, FilesSelect
  <2>2. QED
    BY <2>1, StoredValues DEF Snapshot, Token
<1>14. current' \subseteq TokenIds /\ superseded' \subseteq TokenIds
  BY <1>1, <1>2, <1>4, <1>7, <1>8, <1>13
<1>15. Found' \subseteq TokenIds /\ now.id \in Found'
  BY <1>2, <1>4, <1>14 DEF Found, FindableOn
<1>16. PICK at \in {"directory_lock", "finish"} : at = IF hasDirectory THEN "directory_lock" ELSE "finish"
  OBVIOUS
<1>17. PICK z : z = [u EXCEPT !.at = at]
  OBVIOUS
<1>18. z \in User /\ z.seen = u.seen
  BY <1>1, <1>16, <1>17 DEF User
<1>19. users' = Informed(c, z)
  BY <1>16, <1>17 DEF WriteVault
<1>20. PICK s \in SUBSET TokenIds :
         s = (IF z.seen = {} THEN {} ELSE z.seen \cup Found') /\ users'[c] = [z EXCEPT !.seen = s]
  <2>1. users'[c] = [z EXCEPT !.seen = IF z.seen = {} THEN {} ELSE z.seen \cup Found']
    BY <1>15, <1>18, <1>19, InformedIs
  <2>2. z.seen \in SUBSET TokenIds
    BY <1>18 DEF User
  <2>3. QED
    BY <1>15, <2>1, <2>2
<1>21. users'[c] = [u EXCEPT !.at = at, !.seen = s]
  BY <1>1, <1>17, <1>20 DEF User
<1>22. u.op = "header" => u.seen # {}
  BY <1>1, <1>5 DEF CallerInv, Alone
<1>23. u.op = "header" => now.id \in s
  BY <1>15, <1>18, <1>20, <1>22
<1>24. PICK y : y = users'[c]
  OBVIOUS
<1>25. CallerInv(c, y, disk', c, Found', hasDirectory, issued) /\ ~Unwritten(y) /\ y.at # "write_vault"
  <2>1. u.seen \subseteq s /\ MovesOn(u, y, at, s)
    BY <1>18, <1>20, <1>21, <1>24 DEF MovesOn
  <2>2. CallerInv(c, u, disk, c, Found, hasDirectory, issued)
    BY <1>1, <1>5
  <2>3. at # "finish" => hasDirectory
    BY <1>16
  <2>4. PICK d2, g : d2 = disk' /\ g = Found'
    OBVIOUS
  <2>5. ~Clears(u) /\ d2["exact"].tokens = u.patch.tokens
    BY <1>5, <1>12, <2>4
  <2>6. HasWritten(u, at, s, d2, hasDirectory)
    BY <1>2, <1>23, <2>1, <2>3, <2>5 DEF HasWritten
  <2>7. CallerInv(c, y, d2, c, g, hasDirectory, issued) /\ ~Unwritten(y) /\ y.at # "write_vault"
    BY <2>1, <2>2, <2>6, WroteFile
  <2>8. QED
    BY <2>4, <2>7
<1>26. /\ DOMAIN users' = StoreCallers /\ users' = [e \in StoreCallers |-> users'[e]]
       /\ \A e \in StoreCallers \ {c} : Hearing(users[e], users'[e], Found')
  BY <1>15, <1>18, <1>19, InformedIs
<1>27. \A p \in Places : \/ disk'[p].tokens.id = 0 \/ \E q \in Places : disk'[p].tokens.id = disk[q].tokens.id
                         \/ disk'[p].tokens.id = users[c].patch.tokens.id
  BY <1>3, <1>11, <1>12 DEF Places
<1>28. QED
  BY <1>2, <1>5, <1>9, <1>10, <1>12, <1>14, <1>24, <1>25, <1>26, <1>27, DiskMoves

LEMMA ClearVaultKeeps == ASSUME StoreInv, NEW c \in StoreCallers, ClearVault(c) PROVE StoreInv'
<1> DEFINE u == users[c]
<1>1. /\ u \in User /\ CallerInv(c, u, disk, Holder, Found, hasDirectory, issued) /\ hasDirectory \in BOOLEAN
      /\ FilesInv(disk, hasDirectory)
  BY CallerIs DEF StoreInv, StoreShape
<1>2. /\ UNCHANGED <<locks, hasDirectory, lapsed, issued, crashes, presented>> /\ u.at = "clear_vault"
      /\ current' = {0, disk["directory"].tokens.id} /\ superseded' = {}
      /\ disk' = [disk EXCEPT !["exact"] = Blank, !["alias"] = Blank]
  BY DEF ClearVault, Unchanged
<1>3. Working(u) /\ Holder = c /\ Clears(u)
  BY <1>1, <1>2 DEF CallerInv, Alone, Working, Waiting, Reading
<1>4. FilesInv(disk', hasDirectory) /\ CommitInv(disk', current', superseded')
  BY <1>1, <1>2, VaultCleared
<1>5. disk \in [Places -> Snapshot] /\ Blank \in Snapshot /\ Blank.tokens.id = 0
  BY <1>1, StoredValues DEF FilesInv, HasTokens
<1>6. disk'["exact"] = Blank /\ disk'["alias"] = Blank /\ disk'["directory"] = disk["directory"]
  BY <1>2, <1>5 DEF Places
<1>7. current' \subseteq TokenIds /\ superseded' \subseteq TokenIds
  BY <1>2, <1>5, ZeroIs DEF Places, Snapshot, Token
<1>8. Found' \subseteq TokenIds
  BY <1>7 DEF Found, FindableOn
<1>9. PICK at \in {"directory_lock", "finish"} : at = IF hasDirectory THEN "directory_lock" ELSE "finish"
  OBVIOUS
<1>10. PICK z : z = [u EXCEPT !.at = at]
  OBVIOUS
<1>11. z \in User /\ z.seen = u.seen
  BY <1>1, <1>9, <1>10 DEF User
<1>12. users' = Informed(c, z)
  BY <1>9, <1>10 DEF ClearVault
<1>13. PICK s \in SUBSET TokenIds :
         s = (IF z.seen = {} THEN {} ELSE z.seen \cup Found') /\ users'[c] = [z EXCEPT !.seen = s]
  <2>1. users'[c] = [z EXCEPT !.seen = IF z.seen = {} THEN {} ELSE z.seen \cup Found']
    BY <1>8, <1>11, <1>12, InformedIs
  <2>2. z.seen \in SUBSET TokenIds
    BY <1>11 DEF User
  <2>3. QED
    BY <1>8, <2>1, <2>2
<1>14. PICK y : y = users'[c]
  OBVIOUS
<1>15. CallerInv(c, y, disk', c, Found', hasDirectory, issued) /\ ~Unwritten(y) /\ y.at # "write_vault"
  <2>1. u.seen \subseteq s /\ MovesOn(u, y, at, s)
    BY <1>1, <1>10, <1>11, <1>13, <1>14 DEF User, MovesOn
  <2>2. CallerInv(c, u, disk, c, Found, hasDirectory, issued)
    BY <1>1, <1>3
  <2>3. at # "finish" => hasDirectory
    BY <1>9
  <2>4. PICK d2, g : d2 = disk' /\ g = Found'
    OBVIOUS
  <2>5. IF Clears(u) THEN d2["exact"] = Blank /\ d2["alias"] = Blank
        ELSE HasTokens(u.patch) => d2["exact"].tokens = u.patch.tokens
    BY <1>3, <1>6, <2>4
  <2>6. CallerInv(c, y, d2, c, g, hasDirectory, issued) /\ ~Unwritten(y) /\ y.at # "write_vault"
    <3>1. HasWritten(u, at, s, d2, hasDirectory)
      BY <1>2, <2>1, <2>3, <2>5 DEF HasWritten
    <3>2. QED
      BY <2>1, <2>2, <3>1, WroteFile
  <2>7. QED
    BY <2>4, <2>6
<1>16. /\ DOMAIN users' = StoreCallers /\ users' = [e \in StoreCallers |-> users'[e]]
       /\ \A e \in StoreCallers \ {c} : Hearing(users[e], users'[e], Found')
  BY <1>8, <1>11, <1>12, InformedIs
<1>17. \A p \in Places : \/ disk'[p].tokens.id = 0 \/ \E q \in Places : disk'[p].tokens.id = disk[q].tokens.id
  BY <1>5, <1>6 DEF Places
<1>18. QED
  BY <1>2, <1>3, <1>4, <1>6, <1>7, <1>14, <1>15, <1>16, <1>17, DiskMoves

LEMMA WriteTokensKeeps == ASSUME StoreInv, NEW c \in StoreCallers, WriteTokens(c) PROVE StoreInv'
<1> DEFINE u == users[c]
<1>1. /\ u \in User /\ CallerInv(c, u, disk, Holder, Found, hasDirectory, issued)
      /\ FilesInv(disk, hasDirectory) /\ CommitInv(disk, current, superseded)
      /\ current \subseteq TokenIds /\ superseded \subseteq TokenIds /\ hasDirectory \in BOOLEAN
  BY CallerIs DEF StoreInv, StoreShape
<1>2. PICK t : t = IF Clears(u) THEN NoTokens ELSE IF HasTokens(u.patch) THEN u.patch.tokens ELSE disk["directory"].tokens
  OBVIOUS
<1>3. /\ UNCHANGED <<locks, hasDirectory, lapsed, issued, crashes, superseded, presented>> /\ u.at = "write_tokens"
      /\ current' = IF Clears(u) THEN {0} ELSE current
  BY DEF WriteTokens, Unchanged
<1>4. Working(u) /\ Holder = c /\ hasDirectory = TRUE
  BY <1>1, <1>3 DEF CallerInv, Knows, Working, Waiting, Reading
<1>5. disk \in [Places -> Snapshot] /\ NoTokens.id = 0 /\ ~HasTokens(Blank)
  BY <1>1, StoredValues DEF FilesInv
<1>6. disk' = [disk EXCEPT !["directory"].tokens = t]
  BY <1>2, <1>5 DEF WriteTokens, Places, Snapshot
<1>7. IF Clears(u) THEN ~HasTokens(disk["exact"]) /\ ~HasTokens(disk["alias"])
      ELSE HasTokens(u.patch) => disk["exact"].tokens = u.patch.tokens /\ HasTokens(disk["exact"])
  BY <1>1, <1>3, <1>5 DEF CallerInv, Knows, HasTokens
<1>8. \/ t = disk["exact"].tokens /\ HasTokens(disk["exact"])
      \/ t = disk["directory"].tokens
      \/ t = NoTokens /\ ~HasTokens(disk["exact"]) /\ ~HasTokens(disk["alias"])
  BY <1>2, <1>7
<1>9. /\ FilesInv(disk', TRUE)
      /\ t = disk["directory"].tokens \/ HasTokens(disk["exact"]) => CommitInv(disk', current, superseded)
      /\ t = NoTokens /\ ~HasTokens(disk["exact"]) /\ ~HasTokens(disk["alias"]) => CommitInv(disk', {0}, superseded)
  BY <1>1, <1>4, <1>6, <1>8, DirectoryWritten
<1>10. FilesInv(disk', hasDirectory) /\ CommitInv(disk', current', superseded')
  BY <1>2, <1>3, <1>4, <1>7, <1>9
<1>11. t \in Token
  BY <1>5, <1>8, StoredValues DEF Places, Snapshot
<1>12. disk'["exact"] = disk["exact"] /\ disk'["alias"] = disk["alias"] /\ disk'["directory"].tokens = t
  BY <1>5, <1>6, <1>11 DEF Places, Snapshot
<1>13. current' \subseteq TokenIds /\ superseded' \subseteq TokenIds
  BY <1>1, <1>3, ZeroIs
<1>14. Found' \subseteq TokenIds
  BY <1>13 DEF Found, FindableOn
<1>15. disk["directory"].tokens = disk'["directory"].tokens \/ disk'["directory"].tokens.id \in Found' \cup {0}
  <2>1. HasTokens(disk["exact"]) => disk["exact"].tokens.id \in Found'
    BY <1>10, <1>12, FilesFound DEF Found, HasTokens
  <2>2. QED
    BY <1>5, <1>8, <1>12, <2>1
<1>16. PICK z : z = [u EXCEPT !.at = "write_client"]
  OBVIOUS
<1>17. z \in User /\ z.seen = u.seen
  BY <1>1, <1>16, StandsAt
<1>18. users' = Informed(c, z)
  BY <1>16 DEF WriteTokens
<1>19. PICK s \in SUBSET TokenIds :
         s = (IF z.seen = {} THEN {} ELSE z.seen \cup Found') /\ users'[c] = [z EXCEPT !.seen = s]
  <2>1. users'[c] = [z EXCEPT !.seen = IF z.seen = {} THEN {} ELSE z.seen \cup Found']
    BY <1>14, <1>17, <1>18, InformedIs
  <2>2. z.seen \in SUBSET TokenIds
    BY <1>17 DEF User
  <2>3. QED
    BY <1>14, <2>1, <2>2
<1>20. PICK y : y = users'[c]
  OBVIOUS
<1>21. CallerInv(c, y, disk', c, Found', hasDirectory, issued) /\ ~Unwritten(y) /\ y.at # "write_vault"
  <2>1. u.seen \subseteq s /\ MovesOn(u, y, "write_client", s)
    BY <1>1, <1>16, <1>17, <1>19, <1>20 DEF User, MovesOn
  <2>2. CallerInv(c, u, disk, c, Found, hasDirectory, issued)
    BY <1>1, <1>4
  <2>3. PICK d2, g : d2 = disk' /\ g = Found'
    OBVIOUS
  <2>4. HasWritten(u, "write_client", s, d2, hasDirectory)
    BY <1>3, <1>4, <2>1 DEF HasWritten
  <2>5. CallerInv(c, y, d2, c, g, hasDirectory, issued) /\ ~Unwritten(y) /\ y.at # "write_vault"
    BY <2>1, <2>2, <2>4, WroteFile
  <2>6. QED
    BY <2>3, <2>5
<1>22. /\ DOMAIN users' = StoreCallers /\ users' = [e \in StoreCallers |-> users'[e]]
       /\ \A e \in StoreCallers \ {c} : Hearing(users[e], users'[e], Found')
  BY <1>14, <1>17, <1>18, InformedIs
<1>23. \A p \in Places : \/ disk'[p].tokens.id = 0 \/ \E q \in Places : disk'[p].tokens.id = disk[q].tokens.id
  BY <1>5, <1>8, <1>12 DEF Places
<1>24. QED
  BY <1>3, <1>4, <1>10, <1>13, <1>15, <1>20, <1>21, <1>22, <1>23, DiskMoves

(* Another registration in the directory changes nothing about the tokens. *)
Registered(d, e, client) == e = [d EXCEPT !["directory"].client = client]

LEMMA SameTokensOnDisk ==
  ASSUME NEW d, NEW e, NEW committed, NEW replaced, FilesInv(d, TRUE), CommitInv(d, committed, replaced),
         NEW client \in ClientIds, Registered(d, e, client)
  PROVE  /\ FilesInv(e, TRUE) /\ CommitInv(e, committed, replaced) /\ FindableOn(e, committed) = FindableOn(d, committed)
         /\ \A p \in Places : e[p].tokens = d[p].tokens
<1>1. d \in [Places -> Snapshot]
  BY DEF FilesInv
<1>2. /\ e \in [Places -> Snapshot] /\ e["exact"] = d["exact"] /\ e["alias"] = d["alias"]
      /\ e["directory"].tokens = d["directory"].tokens
  BY <1>1 DEF Places, Snapshot, Registered
<1>3. \A p \in Places : e[p].tokens = d[p].tokens
  BY <1>2 DEF Places
<1>4. FilesInv(e, TRUE)
  BY <1>2, <1>3 DEF FilesInv, HasTokens, Places
<1>5. CommitInv(e, committed, replaced)
  BY <1>2 DEF CommitInv, HasTokens
<1>6. OrderedOn(e) <=> OrderedOn(d)
  BY <1>2, <1>3 DEF OrderedOn, HasTokens
<1>7. QED
  BY <1>3, <1>4, <1>5, <1>6 DEF FindableOn

LEMMA WriteClientKeeps == ASSUME StoreInv, NEW c \in StoreCallers, WriteClient(c) PROVE StoreInv'
<1> DEFINE u == users[c]
<1>1. /\ u \in User /\ CallerInv(c, u, disk, Holder, Found, hasDirectory, issued)
      /\ FilesInv(disk, hasDirectory) /\ CommitInv(disk, current, superseded)
      /\ current \subseteq TokenIds /\ superseded \subseteq TokenIds /\ DOMAIN users = StoreCallers
      /\ hasDirectory \in BOOLEAN
  BY CallerIs DEF StoreInv, StoreShape
<1>2. PICK client : client = IF Clears(u) \/ u.nulls THEN 0
                             ELSE IF u.patch.client # 0 THEN u.patch.client ELSE disk["directory"].client
  OBVIOUS
<1>3. /\ UNCHANGED <<locks, hasDirectory, lapsed, issued, crashes, current, superseded, presented>>
      /\ u.at = "write_client" /\ users' = [users EXCEPT ![c] = [u EXCEPT !.at = "finish"]]
  BY DEF WriteClient, Unchanged, HistoryKept, SetUser
<1>4. Working(u) /\ Holder = c /\ hasDirectory = TRUE
  BY <1>1, <1>3 DEF CallerInv, Knows, Working, Waiting, Reading
<1>5. disk \in [Places -> Snapshot]
  BY <1>1 DEF FilesInv
<1>6. client \in ClientIds
  BY <1>1, <1>2, <1>5 DEF User, Snapshot, Places, ClientIds
<1>7. disk' = [disk EXCEPT !["directory"].client = client]
  BY <1>2, <1>5 DEF WriteClient, Places, Snapshot
<1>8. /\ FilesInv(disk', hasDirectory) /\ CommitInv(disk', current, superseded) /\ Found' = Found
      /\ \A p \in Places : disk'[p].tokens = disk[p].tokens
  <2>1. PICK e : e = disk'
    OBVIOUS
  <2>2. Registered(disk, e, client)
    BY <1>7, <2>1 DEF Registered
  <2>3. /\ FilesInv(e, TRUE) /\ CommitInv(e, current, superseded)
        /\ FindableOn(e, current) = FindableOn(disk, current) /\ \A p \in Places : e[p].tokens = disk[p].tokens
    BY <1>1, <1>4, <1>6, <2>2, SameTokensOnDisk
  <2>4. QED
    BY <1>3, <1>4, <2>1, <2>3 DEF Found
<1>9. PICK y : y = [u EXCEPT !.at = "finish"]
  OBVIOUS
<1>10. MovesOn(u, y, "finish", u.seen) /\ u.seen \in SUBSET TokenIds
  BY <1>1, <1>9 DEF User, MovesOn
<1>11. CallerInv(c, y, disk', c, Found', hasDirectory, issued) /\ ~Unwritten(y) /\ y.at # "write_vault"
  <2>1. CallerInv(c, u, disk, c, Found, hasDirectory, issued)
    BY <1>1, <1>4
  <2>2. PICK d2, g : d2 = disk' /\ g = Found'
    OBVIOUS
  <2>3. HasWritten(u, "finish", u.seen, d2, hasDirectory)
    BY <1>3 DEF HasWritten
  <2>4. CallerInv(c, y, d2, c, g, hasDirectory, issued) /\ ~Unwritten(y) /\ y.at # "write_vault"
    BY <1>10, <2>1, <2>3, WroteFile
  <2>5. QED
    BY <2>2, <2>4
<1>12. users'[c] = y /\ DOMAIN users' = StoreCallers /\ users' = [e \in StoreCallers |-> users'[e]]
  BY <1>1, <1>3, <1>9
<1>13. ASSUME NEW e \in StoreCallers \ {c} PROVE Hearing(users[e], users'[e], Found')
  <2>1. users[e] \in User /\ CallerInv(e, users[e], disk, Holder, Found, hasDirectory, issued)
    BY CallerIs
  <2>2. users'[e] = users[e]
    BY <1>1, <1>3
  <2>3. users[e] = [users[e] EXCEPT !.seen = users[e].seen] /\ users[e].seen \in SUBSET TokenIds
    BY <2>1 DEF User
  <2>4. Reading(users[e]) /\ users[e].why = "header" => Found \subseteq users[e].seen
    BY <2>1 DEF CallerInv, Hears
  <2>5. QED
    BY <1>8, <2>2, <2>3, <2>4 DEF Hearing
<1>14. disk["directory"].tokens = disk'["directory"].tokens
  BY <1>8 DEF Places
<1>15. \A p \in Places : \E q \in Places : disk'[p].tokens.id = disk[q].tokens.id
  BY <1>8
<1>16. current' \subseteq TokenIds /\ superseded' \subseteq TokenIds /\ CommitInv(disk', current', superseded')
  BY <1>1, <1>3, <1>8
<1>17. QED
  BY <1>3, <1>4, <1>8, <1>11, <1>12, <1>13, <1>14, <1>15, <1>16, DiskMoves

-----------------------------------------------------------------------------
(* What the callers find first.                                            *)

LEMMA SelectsOne ==
  ASSUME NEW view \in [Places -> Snapshot], NEW x \in Snapshot, Preferred(view) = x,
         \A p \in Places : view[p].client \in {0, 1}, x.tokens.client \in {0, 1},
         (HasTokens(x) /\ x.client = 1) \/ x = Blank
  PROVE  Select(view) # Conflict /\ Select(view).tokens = x.tokens
<1> DEFINE peers == {p \in Places : view[p].tokens.id = x.tokens.id}
           clients == ({view[p].client : p \in peers} \cup {x.client}) \ {0}
           merged == IF HasTokens(x) /\ clients # {} THEN [x EXCEPT !.client = CHOOSE k \in clients : TRUE] ELSE x
<1>1. x # Conflict
  BY StoredValues
<1>2. clients \subseteq {1}
  BY StoredValues DEF Blank
<1>3. Select(view) = IF x = Conflict \/ (HasTokens(x) /\ \E k, l \in clients : k # l) \/ ~ValidClient(merged)
                     THEN Conflict ELSE merged
  BY DEF Select
<1>4. ~\E k, l \in clients : k # l
  BY <1>2
<1>5. merged \in Snapshot /\ merged.tokens = x.tokens /\ (HasTokens(x) => merged.client = 1)
  <2>1. CASE HasTokens(x) /\ clients # {}
    <3>1. PICK k : k = CHOOSE i \in clients : TRUE
      OBVIOUS
    <3>2. k = 1
      BY <1>2, <2>1, <3>1
    <3>3. merged = [x EXCEPT !.client = k]
      BY <2>1, <3>1
    <3>4. QED
      BY <3>2, <3>3 DEF Snapshot, ClientIds
  <2>2. CASE ~(HasTokens(x) /\ clients # {})
    <3>1. HasTokens(x) => 1 \in clients
      BY StoredValues
    <3>2. QED
      BY <2>2, <3>1
  <2>3. QED
    BY <2>1, <2>2
<1>6. ~HasTokens(x) => x.tokens.client = 0
  BY DEF Blank, NoTokens
<1>7. ValidClient(merged)
  BY <1>5, <1>6 DEF ValidClient
<1>8. merged # Conflict
  BY <1>5, StoredValues
<1> HIDE DEF merged, clients
<1>9. QED
  BY <1>1, <1>3, <1>4, <1>5, <1>7, <1>8

LEMMA SeedValues ==
  /\ Kept(LegacyTokens(1)) \in Snapshot /\ Kept(LegacyTokens(1)).tokens = LegacyTokens(1)
  /\ Kept(LegacyTokens(1)).client = 1 /\ Sound(LegacyTokens(1)) /\ LegacyTokens(1).client = 0
  /\ Kept(Committed(2, 1, 1)) \in Snapshot /\ Kept(Committed(2, 1, 1)).tokens = Committed(2, 1, 1)
  /\ Kept(Committed(2, 1, 1)).client = 1 /\ Sound(Committed(2, 1, 1))
  /\ Committed(2, 1, 1).id = 2 /\ Committed(2, 1, 1).revision = 1 /\ Committed(2, 1, 1).parent = 1
  /\ Committed(2, 1, 1).client = 1
<1>1. LegacyTokens(1) \in Token /\ Sound(LegacyTokens(1)) /\ LegacyTokens(1).client = 0
  <2>1. ASSUME NEW n \in Token, NEW m, m = [n EXCEPT !.id = 1, !.refresh = 1] PROVE m.client = n.client
    BY <2>1 DEF Token
  <2>2. LegacyTokens(1).client = NoTokens.client
    BY <2>1, StoredValues DEF LegacyTokens
  <2>3. NoTokens.client = 0
    BY DEF NoTokens
  <2>4. QED
    BY <2>2, <2>3, StoredValues DEF Sound
<1>2. 1 \in TokenIds /\ 2 \in TokenIds /\ 1 \in ClientIds
  BY DEF TokenIds, ClientIds
<1>3. PICK m : m = Committed(2, 1, 1)
  OBVIOUS
<1>4. m = [id |-> 2, refresh |-> 2, revision |-> 1, parent |-> 1, client |-> 1]
  BY <1>3 DEF Committed
<1>5. m \in Token /\ m.id = 2 /\ m.revision = 1 /\ m.parent = 1 /\ m.client = 1 /\ Sound(m)
  BY <1>2, <1>4 DEF Token, Sound
<1>6. ASSUME NEW t \in Token PROVE Kept(t) \in Snapshot /\ Kept(t).tokens = t /\ Kept(t).client = 1
  BY <1>2 DEF Kept, Snapshot
<1>7. QED
  BY <1>1, <1>3, <1>5, <1>6

(* Nothing, or one snapshot in one place or several.                       *)
LEMMA SeedSelects ==
  ASSUME NEW d \in [Places -> Snapshot], NEW x \in Snapshot, FirstCandidate(d) = x,
         \A p \in Places : ~HasTokens(d[p]) \/ d[p].tokens.id = x.tokens.id
  PROVE  Preferred(d) = x
<1>1. ASSUME NEW p \in Places PROVE Prefer(x, d[p]) = x
  BY PreferOne DEF HasTokens
<1>2. "exact" \in Places /\ "alias" \in Places /\ "directory" \in Places
  BY DEF Places
<1>3. QED
  BY <1>1, <1>2 DEF Preferred

LEMMA SeedIs ==
  ASSUME NEW d \in Seeds, NEW has \in BOOLEAN, ~has => d["directory"] = Blank
  PROVE  /\ FilesInv(d, has) /\ CommitInv(d, {Select(d).tokens.id}, {})
         /\ Select(d).tokens.id \in TokenIds /\ \A p \in Places : d[p].tokens.id <= 2
<1> DEFINE k == Kept(LegacyTokens(1))
           m == Kept(Committed(2, 1, 1))
<1>1. /\ k \in Snapshot /\ k.tokens.id = 1 /\ k.tokens.revision = 0 /\ k.client = 1 /\ Sound(k.tokens)
      /\ k.tokens.client = 0
      /\ m \in Snapshot /\ m.tokens.id = 2 /\ m.tokens.revision = 1 /\ m.tokens.parent = 1 /\ m.client = 1
      /\ m.tokens.client = 1 /\ Sound(m.tokens)
      /\ HasTokens(k) /\ HasTokens(m)
  BY SeedValues, StoredValues DEF HasTokens
<1>2. /\ Blank \in Snapshot /\ ~HasTokens(Blank) /\ Blank.tokens.id = 0
      /\ Blank.tokens.revision = 0 /\ Blank.client = 0
      /\ Sound(Blank.tokens) /\ Blank.tokens.client = 0
  BY StoredValues DEF Blank, Sound, HasTokens, NoTokens
<1>3. \/ d = [p \in Places |-> Blank]
      \/ \E q \in Places : d = [p \in Places |-> IF p = q THEN k ELSE Blank]
      \/ \E n \in {k, m} : d = [p \in Places |-> CASE p = "exact" -> m [] p = "alias" -> Blank [] p = "directory" -> n]
  BY DEF Seeds
<1> HIDE DEF k, m
<1>4. \/ d["exact"] = Blank /\ d["alias"] = Blank /\ d["directory"] = Blank
      \/ d["exact"] = k /\ d["alias"] = Blank /\ d["directory"] = Blank
      \/ d["exact"] = Blank /\ d["alias"] = k /\ d["directory"] = Blank
      \/ d["exact"] = Blank /\ d["alias"] = Blank /\ d["directory"] = k
      \/ d["exact"] = m /\ d["alias"] = Blank /\ d["directory"] = k
      \/ d["exact"] = m /\ d["alias"] = Blank /\ d["directory"] = m
  BY <1>3 DEF Places
<1>5. d \in [Places -> Snapshot]
  <2>1. CASE d = [p \in Places |-> Blank]
    BY <1>2, <2>1
  <2>2. ASSUME NEW q \in Places, d = [p \in Places |-> IF p = q THEN k ELSE Blank] PROVE d \in [Places -> Snapshot]
    BY <1>1, <1>2, <2>2
  <2>3. ASSUME NEW n \in {k, m},
               d = [p \in Places |-> CASE p = "exact" -> m [] p = "alias" -> Blank [] p = "directory" -> n]
        PROVE  d \in [Places -> Snapshot]
    BY <1>1, <1>2, <2>3 DEF Places
  <2>4. QED
    BY <1>3, <2>1, <2>2, <2>3
<1>6. /\ \A p \in Places : Sound(d[p].tokens) /\ d[p].client \in {0, 1} /\ d[p].tokens.id <= 2
      /\ d["alias"].tokens.revision = 0
  BY <1>1, <1>2, <1>4 DEF Places
<1>7. FilesInv(d, has)
  <2>1. HasTokens(d["exact"]) => Behind(d["alias"].tokens, d["exact"].tokens)
                                 /\ Behind(d["directory"].tokens, d["exact"].tokens)
    BY <1>1, <1>2, <1>4 DEF Behind
  <2>2. ~HasTokens(d["exact"]) /\ HasTokens(d["alias"]) => ~HasTokens(d["directory"])
    BY <1>1, <1>2, <1>4
  <2>3. QED
    BY <1>5, <1>6, <2>1, <2>2 DEF FilesInv
<1>8. ASSUME NEW x \in {k, m, Blank}, Preferred(d) = x,
             x.tokens.id = IF HasTokens(d["exact"]) THEN d["exact"].tokens.id
                           ELSE IF HasTokens(d["directory"]) THEN d["directory"].tokens.id ELSE d["alias"].tokens.id
      PROVE  CommitInv(d, {Select(d).tokens.id}, {}) /\ Select(d).tokens.id \in TokenIds
  <2>1. x \in Snapshot /\ x.tokens.client \in {0, 1} /\ ((HasTokens(x) /\ x.client = 1) \/ x = Blank)
    BY <1>1, <1>2
  <2>2. Select(d).tokens = x.tokens
    BY <1>5, <1>6, <1>8, <2>1, SelectsOne
  <2>3. QED
    BY <1>8, <2>1, <2>2 DEF CommitInv, Snapshot, Token
<1>9. CASE d["exact"] = Blank /\ d["alias"] = Blank /\ d["directory"] = Blank
  <2>1. \A p \in Places : d[p] = Blank
    BY <1>9 DEF Places
  <2>2. FirstCandidate(d) = Blank
    BY <1>5, <2>1, FirstIs
  <2>3. Preferred(d) = Blank
    BY <1>2, <1>5, <2>1, <2>2, SeedSelects
  <2>4. QED
    BY <1>2, <1>6, <1>7, <1>8, <1>9, <2>3
<1>10. ASSUME NEW x \in {k, m}, FirstCandidate(d) = x, \A p \in Places : d[p] \in {x, Blank},
              HasTokens(d["exact"]) => d["exact"] = x,
              ~HasTokens(d["exact"]) /\ HasTokens(d["directory"]) => d["directory"] = x,
              ~HasTokens(d["exact"]) /\ ~HasTokens(d["directory"]) => d["alias"] = x
       PROVE  CommitInv(d, {Select(d).tokens.id}, {}) /\ Select(d).tokens.id \in TokenIds
  <2>1. Preferred(d) = x
    BY <1>1, <1>2, <1>5, <1>10, SeedSelects
  <2>2. QED
    BY <1>8, <1>10, <2>1
<1>11. CASE d["exact"] = k /\ d["alias"] = Blank /\ d["directory"] = Blank
  <2>1. FirstCandidate(d) = k
    BY <1>1, <1>2, <1>5, <1>11, FirstIs
  <2>2. QED
    BY <1>1, <1>2, <1>6, <1>7, <1>10, <1>11, <2>1 DEF Places
<1>12. CASE d["exact"] = Blank /\ d["alias"] = k /\ d["directory"] = Blank
  <2>1. FirstCandidate(d) = k
    BY <1>1, <1>2, <1>5, <1>12, FirstIs
  <2>2. QED
    BY <1>1, <1>2, <1>6, <1>7, <1>10, <1>12, <2>1 DEF Places
<1>13. CASE d["exact"] = Blank /\ d["alias"] = Blank /\ d["directory"] = k
  <2>1. FirstCandidate(d) = k
    BY <1>1, <1>5, <1>13, FirstIs
  <2>2. QED
    BY <1>1, <1>2, <1>6, <1>7, <1>10, <1>13, <2>1 DEF Places
<1>14. CASE d["exact"] = m /\ d["alias"] = Blank /\ d["directory"] = m
  <2>1. FirstCandidate(d) = m
    BY <1>1, <1>5, <1>14, FirstIs
  <2>2. QED
    BY <1>1, <1>2, <1>6, <1>7, <1>10, <1>14, <2>1 DEF Places
<1>15. CASE d["exact"] = m /\ d["alias"] = Blank /\ d["directory"] = k
  <2>1. FirstCandidate(d) = k
    BY <1>1, <1>5, <1>15, FirstIs
  <2>2. Prefer(k, k) = k /\ Prefer(k, m) = m /\ Prefer(m, Blank) = m
    BY <1>1, <1>2, PreferOne DEF Overtaken
  <2>3. Preferred(d) = m
    BY <1>15, <2>1, <2>2 DEF Preferred
  <2>4. QED
    BY <1>1, <1>6, <1>7, <1>8, <1>15, <2>3
<1>16. QED
  BY <1>4, <1>9, <1>11, <1>12, <1>13, <1>14, <1>15

LEMMA StoreStarts ==
  ASSUME NEW seeds, NEW crowd, seeds \subseteq Seeds, crowd \subseteq StoreCallers, StoreInit(seeds, crowd)
  PROVE  StoreInv
<1>1. /\ disk \in Seeds /\ hasDirectory \in BOOLEAN /\ (~hasDirectory => disk["directory"] = Blank)
      /\ lapsed = {} /\ issued = 2 /\ crashes = 0 /\ current = {Select(disk).tokens.id}
      /\ superseded = {} /\ presented = {}
      /\ locks = [l \in {"refresh", "vault", "directory"} |-> Free]
  BY DEF StoreInit, OnDisk
<1>2. PICK ops \in [StoreCallers -> Operations] :
        users = [c \in StoreCallers |-> IF c \in crowd THEN [NewUser EXCEPT !.op = ops[c]] ELSE NewUser]
  BY DEF StoreInit
<1>3. /\ FilesInv(disk, hasDirectory) /\ CommitInv(disk, current, superseded)
      /\ current \subseteq TokenIds /\ \A p \in Places : disk[p].tokens.id <= issued
  BY <1>1, SeedIs
<1>4. DOMAIN users = StoreCallers /\ users = [c \in StoreCallers |-> users[c]]
  BY <1>2
<1>5. StoreShape
  BY <1>1, <1>3, <1>4 DEF StoreShape, TokenIds
<1>6. ASSUME NEW c \in StoreCallers
      PROVE  /\ users[c] \in User /\ users[c].at = "idle" /\ users[c].patch = Blank /\ users[c].result = 0
             /\ users[c].op = "import" => ~hasDirectory
  <2>1. NewUser.at = "idle" /\ NewUser.result = 0 /\ NewUser.op = "none"
    BY DEF NewUser
  <2>2. CASE c \notin crowd
    BY <1>2, <2>1, <2>2, NewUserIs
  <2>3. CASE c \in crowd
    <3>1. PICK op, y : op \in Operations /\ op = ops[c] /\ y = users[c]
      OBVIOUS
    <3>2. y = [NewUser EXCEPT !.op = op]
      BY <1>2, <2>3, <3>1
    <3>3. ASSUME NEW b \in User, y = [b EXCEPT !.op = op]
          PROVE  y \in User /\ y.at = b.at /\ y.patch = b.patch /\ y.result = b.result
      BY <3>1, <3>3 DEF User
    <3>4. users[c].op = "import" => ~hasDirectory
      BY <2>3 DEF StoreInit
    <3>5. QED
      BY <2>1, <3>1, <3>2, <3>3, <3>4, NewUserIs
  <2>4. QED
    BY <2>2, <2>3
<1>7. ASSUME NEW c \in StoreCallers
      PROVE  /\ CallerInv(c, users[c], disk, locks["refresh"], FindableOn(disk, current), hasDirectory, issued)
             /\ ~Unwritten(users[c])
  <2>1. /\ Waiting(users[c]) /\ ~Reading(users[c]) /\ ~Writing(users[c]) /\ ~Working(users[c]) /\ ~Unwritten(users[c])
    BY <1>6 DEF Waiting, Reading, Writing, Working, Unwritten
  <2>2. Alone(users[c])
    BY <1>6, <2>1 DEF Alone
  <2>3. QED
    BY <1>6, <2>1, <2>2 DEF CallerInv, ReadSoFar, Knows, Hears, NotOnDisk
<1>8. QED
  BY <1>3, <1>5, <1>7 DEF StoreInv, Apart

-----------------------------------------------------------------------------
(* The theorems.                                                           *)

LEMMA StoreKeeps == StoreInv /\ [StoreNext]_storeVars => StoreInv'
<1> SUFFICES ASSUME StoreInv, [StoreNext]_storeVars PROVE StoreInv'
  OBVIOUS
<1>1. ASSUME NEW c \in StoreCallers, StoreStep(c) PROVE StoreInv'
  BY <1>1, BeginKeeps, BeginSetKeeps, BeginImportKeeps, ReadFileKeeps, DecideHeaderKeeps, DecideRefreshKeeps,
     DecideAuthorizeKeeps, DecideExpectedKeeps, DecideEntryKeeps, DecidePendingKeeps, AcquireTransactionKeeps,
     AcquireVaultKeeps, AcquireDirectoryKeeps, LockBusyKeeps, RequestRefreshKeeps, RegisterKeeps, CallbackKeeps,
     InspectSlotKeeps, WriteVaultKeeps, ClearVaultKeeps, WriteTokensKeeps, WriteClientKeeps, CallFinishKeeps, CallReleaseKeeps
     DEF StoreStep
<1>2. CASE UNCHANGED storeVars
  BY <1>2 DEF storeVars, StoreInv, StoreShape
<1>3. QED
  BY <1>1, <1>2, WriteFailsKeeps, CancelKeeps, CrashKeeps, CleanUpKeeps, LapseKeeps DEF StoreNext

LEMMA StoreInvTypes == StoreInv => StoreTypeOK
<1> SUFFICES ASSUME StoreInv PROVE StoreTypeOK
  OBVIOUS
<1>1. \A c \in StoreCallers : users[c] \in User
  BY CallerIs
<1>2. users \in [StoreCallers -> User]
  BY <1>1 DEF StoreInv, StoreShape
<1>3. QED
  BY <1>2 DEF StoreTypeOK, StoreInv, StoreShape, FilesInv

LEMMA StoreInvSafe == StoreInv => StoreSafety
<1> SUFFICES ASSUME StoreInv PROVE StoreSafety
  OBVIOUS
<1>1. CommittedSurvives
  <2>1. FilesInv(disk, hasDirectory) /\ CommitInv(disk, current, superseded)
    BY DEF StoreInv
  <2>2. Ordered = OrderedOn(disk)
    BY DEF Ordered, OrderedOn
  <2>3. QED
    BY <2>1, <2>2, SelectFound DEF CommittedSurvives, OnDisk
<1>2. ReadsAreRegular
  BY CallerIs DEF ReadsAreRegular, CallerInv, Alone
<1>3. QED
  BY <1>1, <1>2 DEF StoreSafety

(* Whatever is interrupted, cancelled or lost on the way: files whose      *)
(* generations are ordered reconcile to the committed tokens or to an      *)
(* error, and a reader without locks is given tokens that were current at  *)
(* some moment of its read (oauth_store.rs, save_entry; oauth_reconcile.rs,*)
(* select; oauth.rs, authorization_header), for every number of callers,   *)
(* of commits and of crashes.                                              *)
THEOREM StoreSafe ==
  ASSUME NEW seeds, NEW crowd, seeds \subseteq Seeds, crowd \subseteq StoreCallers
  PROVE  StoreInit(seeds, crowd) /\ [][StoreNext]_storeVars => [](StoreTypeOK /\ StoreSafety)
<1>1. StoreInit(seeds, crowd) => StoreInv
  BY StoreStarts
<1>2. QED
  BY <1>1, StoreKeeps, StoreInvTypes, StoreInvSafe, PTL

(* NoReplay: among ordered generations no caller presents a refresh token  *)
(* that a commit has replaced, however many refresh at once, fail, are     *)
(* cancelled or die (oauth_protocol.rs, refresh; oauth_reconcile.rs:130).  *)
THEOREM NotReplayed ==
  ASSUME NEW seeds, NEW crowd, seeds \subseteq Seeds, crowd \subseteq StoreCallers
  PROVE  StoreInit(seeds, crowd) /\ [][StoreNext]_storeVars => NoReplay
<1>1. StoreInit(seeds, crowd) => StoreInv
  BY StoreStarts
<1>2. ASSUME StoreInv, StoreNext PROVE \A p \in presented' \ presented : Ordered => p[1] \notin superseded
  <2>1. ASSUME NEW c \in StoreCallers, RequestRefresh(c), NEW p \in presented' \ presented, Ordered
        PROVE  p[1] \notin superseded
    <3>1. p = <<users[c].basis.tokens.refresh, c>> /\ users[c].at = "request"
      BY <2>1 DEF RequestRefresh
    <3>2. users[c].basis = Select(disk) /\ HasTokens(users[c].basis)
      BY <1>2, <3>1, CallerIs DEF CallerInv, Knows
    <3>3. Select(disk) # Conflict
      BY <3>2, StoredValues
    <3>4. FilesInv(disk, hasDirectory) /\ CommitInv(disk, current, superseded) /\ OrderedOn(disk)
      BY <1>2, <2>1 DEF StoreInv, Ordered, OrderedOn
    <3>5. Select(disk).tokens.refresh \notin superseded
      BY <3>3, <3>4, SelectFound
    <3>6. p[1] = Select(disk).tokens.refresh
      BY <3>1, <3>2
    <3>7. QED
      BY <3>5, <3>6
  <2>2. ASSUME NEW c \in StoreCallers, StoreStep(c), ~RequestRefresh(c) PROVE presented' = presented
    BY <2>2 DEF StoreStep, Begin, BeginSet, BeginImport, ReadFile, DecideHeader, DecideRefresh, DecideAuthorize,
       DecideExpected, DecideEntry, DecidePending, AcquireTransaction, AcquireVault, AcquireDirectory, LockBusy,
       Register, Callback, InspectSlot, WriteVault, ClearVault, WriteTokens, WriteClient, Finish, Release,
       Unchanged, HistoryKept
  <2>3. ASSUME NEW c \in StoreCallers, WriteFails(c) \/ Cancel(c) \/ Crash(c) PROVE presented' = presented
    BY <2>3 DEF WriteFails, Cancel, Crash, Unchanged, HistoryKept
  <2>4. CleanUp \/ Lapse => presented' = presented
    BY DEF CleanUp, Lapse, Unchanged, HistoryKept
  <2>5. QED
    BY <1>2, <2>1, <2>2, <2>3, <2>4 DEF StoreNext
<1>3. StoreInv /\ [StoreNext]_storeVars
        => [\A p \in presented' \ presented : Ordered => p[1] \notin superseded]_storeVars
  BY <1>2
<1>4. QED
  BY <1>1, <1>3, StoreKeeps, PTL DEF NoReplay

USE AuthorizationAssumption

-----------------------------------------------------------------------------
(* How credentials are obtained: what binds them.                          *)

(* What a user may have put in the vault, in every shape that is accepted. *)
AcceptedSeeds ==
  {Nothing} \cup
  {c \in Credentials : AcceptedPayload(c) /\ c.tokens.commit = c.client /\ c.tokens.of = c.tokens.issuer
                         /\ c.tokens.client = c.client.id}

(* Tokens name their issuer and are kept with their client.                *)
Kinship(c) ==
  /\ c.tokens.of = c.tokens.issuer
  /\ HasGrant(c) => c.client.id = c.tokens.client

StoredInv(c) == Kinship(c) /\ ValidRegistration(c) /\ ValidBinding(PlainSettings, c)

(* The resource metadata that was used, if any, lists the issuer.          *)
Listed(d) == ValidResource(d.resource) /\ (d.resource # "none" => d.listed)

AuthorizingInv(f, c) ==
  /\ f.at \notin {"bind", "request"}
  /\ f.at \notin {"resource", "metadata"} => f.discovery.metadata.issuer = f.issuer /\ f.discovery.url = f.issuer
  /\ f.at \in {"pending", "callback", "exchange"} => f.client.issuer \in {"none", f.issuer}
  /\ f.at \in {"callback", "exchange"} =>
       /\ c.discovery = f.discovery
       /\ CanAuthenticate(f.settings, f.client, f.discovery.metadata)
  /\ f.at = "exchange" => f.code \in {"none", f.issuer}

RefreshingInv(f, c) ==
  /\ f.at \in {"resource", "metadata", "bind", "request"}
  /\ c = f.snapshot /\ HasGrant(c)
  /\ f.at \in {"bind", "request"} => ValidDiscovery(f.discovery) /\ f.discovery # NoDiscovery
  /\ f.at = "request" =>
       /\ CanAuthenticate(f.settings, f.snapshot.client, f.discovery.metadata)
       /\ ValidBinding(f.settings, [f.snapshot EXCEPT !.discovery = f.discovery])

(* A flow under way has left the tokens alone.                             *)
RunningInv(f, c) ==
  /\ f.result = "none" /\ f.op # "none"
  /\ c.tokens = f.snapshot.tokens /\ Kinship(f.snapshot)
  /\ Listed(f.discovery)
  /\ f.at # "resource" => f.at \in {"bind", "request"} \/ f.issuer \in Issuers
  /\ f.op = "authorize" => AuthorizingInv(f, c)
  /\ f.op = "refresh" => RefreshingInv(f, c)

EndedInv(f, c) ==
  /\ f.result = "failed" /\ ~f.reset => c.tokens.id = f.snapshot.tokens.id
  /\ f.result = "done" =>
       /\ ValidBinding(f.settings, c) /\ ValidDiscovery(c.discovery)
       /\ CanAuthenticate(f.settings, c.client, c.discovery.metadata)

FlowInv(f, c) == IF f.at = "ended" THEN EndedInv(f, c) ELSE RunningInv(f, c)

AuthorizationInv ==
  /\ AuthorizationTypeOK /\ StoredInv(stored) /\ GrantsGoHome /\ FlowInv(flow, stored)

-----------------------------------------------------------------------------
(* Values.                                                                 *)

LEMMA AuthorizationValues ==
  /\ NoClient \in ClientInfo /\ NoGrant \in Grant /\ NoDiscovery \in Discovery /\ Nothing \in Credentials
  /\ PlainSettings \in Settings /\ NoFlow \in Flow /\ NoRequest \in TokenRequest
<1>1. NoClient \in ClientInfo
  BY DEF NoClient, ClientInfo, Registrations, OptionalIssuer, Methods
<1>2. NoGrant \in Grant
  BY <1>1 DEF NoGrant, Grant, Registrations, OptionalIssuer
<1>3. NoDiscovery \in Discovery
  BY DEF NoDiscovery, Discovery, Metadata, OptionalIssuer, OptionalResource, Issuers
<1>4. Nothing \in Credentials
  BY <1>1, <1>2, <1>3 DEF Nothing, Credentials, OptionalIssuer, OptionalResource
<1>5. PlainSettings \in Settings
  BY DEF PlainSettings, Settings
<1>6. NoFlow \in Flow
  BY <1>1, <1>3, <1>4, <1>5 DEF NoFlow, Flow, OptionalIssuer
<1>7. NoRequest \in TokenRequest
  BY DEF NoRequest, TokenRequest, OptionalIssuer, Registrations
<1>8. QED
  BY <1>1, <1>2, <1>3, <1>4, <1>5, <1>6, <1>7

LEMMA OneOfFew ==
  ASSUME NEW S, IsFiniteSet(S), Cardinality(S) <= 1, NEW x \in S, NEW y \in S
  PROVE  x = y
<1>1. SUFFICES ASSUME x # y PROVE FALSE
  OBVIOUS
<1>2. IsFiniteSet({x, y}) /\ Cardinality({x, y}) = 2
  <2>1. Cardinality({x}) = 1 /\ IsFiniteSet({x})
    BY FS_Singleton
  <2>2. y \notin {x} /\ {x} \cup {y} = {x, y}
    BY <1>1
  <2>3. IsFiniteSet({x} \cup {y}) /\ Cardinality({x} \cup {y}) = Cardinality({x}) + 1
    <3>1. PICK one : one = {x}
      OBVIOUS
    <3>2. /\ IsFiniteSet(one \cup {y})
          /\ Cardinality(one \cup {y}) = IF y \in one THEN Cardinality(one) ELSE Cardinality(one) + 1
      BY <2>1, <3>1, FS_AddElement
    <3>3. QED
      BY <2>2, <3>1, <3>2
  <2>4. QED
    BY <2>1, <2>2, <2>3
<1>3. Cardinality({x, y}) <= Cardinality(S) /\ Cardinality(S) \in Nat
  BY FS_Subset, FS_CardinalityType
<1>4. QED
  BY <1>2, <1>3

(* A binding names one issuer.                                             *)
LEMMA BoundToOne ==
  ASSUME NEW settings, NEW c, ValidBinding(settings, c)
  PROVE  \A x, y \in NamedIssuers(c) \ {"none"} : x = y
<1> DEFINE S == NamedIssuers(c) \ {"none"}
<1>1. IsFiniteSet(S)
  <2>1. IsFiniteSet({c.tokens.issuer, c.client.issuer, c.url, c.discovery.metadata.issuer})
    <3>1. IsFiniteSet({}) /\ IsFiniteSet({c.url})
      BY FS_EmptySet, FS_Singleton
    <3>2. IsFiniteSet({c.url, c.client.issuer})
      <4>1. {c.url} \cup {c.client.issuer} = {c.url, c.client.issuer}
        OBVIOUS
      <4>2. QED
        BY <3>1, <4>1, FS_AddElement
    <3>3. IsFiniteSet({c.url, c.client.issuer, c.tokens.issuer})
      <4>1. {c.url, c.client.issuer} \cup {c.tokens.issuer} = {c.url, c.client.issuer, c.tokens.issuer}
        OBVIOUS
      <4>2. QED
        BY <3>2, <4>1, FS_AddElement
    <3>4. {c.url, c.client.issuer, c.tokens.issuer} \cup {c.discovery.metadata.issuer}
            = {c.tokens.issuer, c.client.issuer, c.url, c.discovery.metadata.issuer}
      OBVIOUS
    <3>5. QED
      BY <3>3, <3>4, FS_AddElement
  <2>2. S \subseteq {c.tokens.issuer, c.client.issuer, c.url, c.discovery.metadata.issuer}
    BY DEF NamedIssuers
  <2>3. QED
    BY <2>1, <2>2, FS_Subset
<1>2. Cardinality(S) <= 1
  BY DEF ValidBinding
<1>3. QED
  BY <1>1, <1>2, OneOfFew

(* What a configuration accepts, one without a client accepts.             *)
LEMMA PlainlyBound ==
  ASSUME NEW settings, NEW c, ValidBinding(settings, c)
  PROVE  ValidBinding(PlainSettings, c)
BY DEF ValidBinding, PlainSettings

LEMMA NothingIsBound == Kinship(Nothing) /\ StoredInv(Nothing) /\ ~HasGrant(Nothing)
<1>1. NamedIssuers(Nothing) \ {"none"} = {}
  BY DEF NamedIssuers, Nothing, NoGrant, NoClient, NoDiscovery
<1>2. Cardinality({}) = 0
  BY FS_EmptySet
<1>3. ValidBinding(PlainSettings, Nothing)
  <2>1. Cardinality(NamedIssuers(Nothing) \ {"none"}) <= 1
    BY <1>1, <1>2
  <2>2. Nothing.resource = "none" /\ Nothing.discovery.resource = "none" /\ PlainSettings.client = "none"
    BY DEF Nothing, NoDiscovery, PlainSettings
  <2>3. QED
    BY <2>1, <2>2 DEF ValidBinding, ValidResource
<1>4. QED
  BY <1>3 DEF Kinship, StoredInv, ValidRegistration, HasGrant, Nothing, NoGrant

-----------------------------------------------------------------------------
(* How a flow goes on.                                                     *)

LEMMA FlowStarts ==
  ASSUME NEW op \in {"authorize", "refresh"}, NEW settings \in Settings, NEW reset \in BOOLEAN,
         NEW c \in Credentials, NEW f, f = Starting(op, settings, reset, c)
  PROVE  /\ f \in Flow /\ f.op = op /\ f.settings = settings /\ f.reset = reset /\ f.snapshot = c
         /\ f.at = "ended" /\ f.result = "none" /\ f.discovery = NoDiscovery /\ f.issuer = "none"
<1>1. NoFlow \in Flow
  BY AuthorizationValues
<1>2. ASSUME NEW n \in Flow, NEW m, m = [n EXCEPT !.op = op, !.settings = settings, !.reset = reset, !.snapshot = c]
      PROVE  /\ m \in Flow /\ m.op = op /\ m.settings = settings /\ m.reset = reset /\ m.snapshot = c
             /\ m.at = n.at /\ m.result = n.result /\ m.discovery = n.discovery /\ m.issuer = n.issuer
  BY <1>2 DEF Flow
<1>3. NoFlow.at = "ended" /\ NoFlow.result = "none" /\ NoFlow.discovery = NoDiscovery /\ NoFlow.issuer = "none"
  BY DEF NoFlow
<1>4. f = [NoFlow EXCEPT !.op = op, !.settings = settings, !.reset = reset, !.snapshot = c]
  BY DEF Starting
<1>5. QED
  BY <1>1, <1>2, <1>3, <1>4

LEMMA FlowEnds ==
  ASSUME flow \in Flow, flow.op # "none", NEW r \in {"done", "failed"}, Ends(r)
  PROVE  /\ flow' \in Flow /\ flow'.at = "ended" /\ flow'.result = r /\ flow'.op = flow.op
         /\ flow'.reset = flow.reset /\ flow'.snapshot.tokens = flow.snapshot.tokens
         /\ r = "done" => flow'.settings = flow.settings
<1> DEFINE settings == IF r = "done" THEN flow.settings ELSE PlainSettings
           c == [Nothing EXCEPT !.tokens = flow.snapshot.tokens]
           f == Starting(flow.op, settings, flow.reset, c)
<1>1. flow.op \in {"authorize", "refresh"} /\ settings \in Settings /\ flow.reset \in BOOLEAN
      /\ flow.snapshot \in Credentials
  BY AuthorizationValues DEF Flow
<1>2. c \in Credentials /\ c.tokens = flow.snapshot.tokens
  <2>1. ASSUME NEW n \in Credentials, NEW m, NEW t \in Grant, m = [n EXCEPT !.tokens = t]
        PROVE  m \in Credentials /\ m.tokens = t
    BY <2>1 DEF Credentials
  <2>2. flow.snapshot.tokens \in Grant
    BY <1>1 DEF Credentials
  <2>3. QED
    BY <2>1, <2>2, AuthorizationValues
<1>3. flow' = [f EXCEPT !.result = r]
  BY DEF Ends
<1>4. /\ f \in Flow /\ f.op = flow.op /\ f.settings = settings /\ f.reset = flow.reset /\ f.snapshot = c
      /\ f.at = "ended"
  BY <1>1, <1>2, FlowStarts
<1> HIDE DEF settings, c, f
<1>5. /\ flow' \in Flow /\ flow'.at = f.at /\ flow'.result = r /\ flow'.op = f.op /\ flow'.reset = f.reset
      /\ flow'.snapshot = f.snapshot /\ flow'.settings = f.settings
  BY <1>3, <1>4 DEF Flow
<1>6. QED
  BY <1>2, <1>4, <1>5 DEF settings

(* A flow that fails leaves what is stored as it is.                       *)
LEMMA FlowFails ==
  ASSUME AuthorizationInv, flow.at # "ended", Ends("failed"), UNCHANGED <<stored, flows>>,
         sent' \in TokenRequest, GrantsGoHome'
  PROVE  AuthorizationInv'
<1>1. flow \in Flow /\ RunningInv(flow, stored)
  BY DEF AuthorizationInv, AuthorizationTypeOK, FlowInv
<1>2. flow.op # "none" /\ stored.tokens = flow.snapshot.tokens
  BY <1>1 DEF RunningInv
<1>3. /\ flow' \in Flow /\ flow'.at = "ended" /\ flow'.result = "failed"
      /\ flow'.snapshot.tokens = flow.snapshot.tokens
  BY <1>1, <1>2, FlowEnds
<1>4. EndedInv(flow', stored')
  BY <1>2, <1>3 DEF EndedInv
<1>5. QED
  BY <1>3, <1>4 DEF AuthorizationInv, AuthorizationTypeOK, FlowInv

(* A flow under way: what is needed of it.                                 *)
LEMMA FlowIs ==
  ASSUME AuthorizationInv, flow.at # "ended"
  PROVE  /\ flow \in Flow /\ stored \in Credentials /\ flows \in 0..MaxFlows /\ StoredInv(stored)
         /\ RunningInv(flow, stored) /\ flow.op \in {"authorize", "refresh"}
         /\ flow.settings \in Settings /\ flow.snapshot \in Credentials /\ flow.issuer \in OptionalIssuer
         /\ flow.discovery \in Discovery /\ flow.client \in ClientInfo /\ flow.port \in 0..2
BY DEF AuthorizationInv, AuthorizationTypeOK, FlowInv, RunningInv, Flow

(* A flow goes on and leaves what is stored and what was sent.             *)
LEMMA FlowMoves ==
  ASSUME AuthorizationInv, flow' \in Flow, flow'.at # "ended", RunningInv(flow', stored), Keeps
  PROVE  AuthorizationInv'
BY DEF AuthorizationInv, AuthorizationTypeOK, Keeps, FlowInv, GrantsGoHome

LEMMA FailsQuietly ==
  ASSUME AuthorizationInv, flow.at # "ended", Ends("failed"), Keeps
  PROVE  AuthorizationInv'
<1>1. UNCHANGED <<stored, flows>> /\ sent' \in TokenRequest /\ GrantsGoHome'
  BY DEF AuthorizationInv, AuthorizationTypeOK, Keeps, GrantsGoHome
<1>2. QED
  BY <1>1, FlowFails

-----------------------------------------------------------------------------
(* The steps of a flow.                                                    *)

(* A flow that starts, or ends where it starts.                            *)
LEMMA StartsSafe ==
  ASSUME AuthorizationInv, NEW op \in {"authorize", "refresh"}, NEW settings \in Settings, NEW reset \in BOOLEAN,
         NEW at \in {"ended", "resource"}, NEW result \in {"none", "reused", "failed"},
         Starts(op, settings, reset, at, result), stored' = IF reset THEN Nothing ELSE stored,
         at = "resource" => result = "none" /\ (op = "refresh" => HasGrant(stored) /\ ~reset),
         at = "ended" => ~reset, flows' \in 0..MaxFlows, sent' = NoRequest
  PROVE  AuthorizationInv'
<1> DEFINE f == Starting(op, settings, reset, stored')
<1>1. stored' \in Credentials /\ StoredInv(stored') /\ Kinship(stored')
  BY AuthorizationValues, NothingIsBound DEF AuthorizationInv, AuthorizationTypeOK, StoredInv
<1>2. flow' = [f EXCEPT !.at = at, !.result = result]
  BY DEF Starts
<1>3. /\ f \in Flow /\ f.op = op /\ f.settings = settings /\ f.reset = reset /\ f.snapshot = stored'
      /\ f.discovery = NoDiscovery
  BY <1>1, FlowStarts
<1> HIDE DEF f
<1>4. /\ flow' \in Flow /\ flow'.op = op /\ flow'.settings = settings /\ flow'.reset = reset
      /\ flow'.snapshot = stored' /\ flow'.discovery = NoDiscovery /\ flow'.at = at /\ flow'.result = result
  BY <1>2, <1>3 DEF Flow
<1>5. Listed(NoDiscovery)
  BY DEF Listed, NoDiscovery, ValidResource
<1>6. FlowInv(flow', stored')
  <2>1. CASE at = "ended"
    BY <1>4, <2>1 DEF FlowInv, EndedInv
  <2>2. CASE at = "resource"
    <3>1. AuthorizingInv(flow', stored')
      BY <1>4, <2>2 DEF AuthorizingInv
    <3>2. op = "refresh" => RefreshingInv(flow', stored')
      BY <1>4, <2>2 DEF RefreshingInv
    <3>3. QED
      BY <1>1, <1>4, <1>5, <2>2, <3>1, <3>2 DEF FlowInv, RunningInv
  <2>3. QED
    BY <2>1, <2>2
<1>7. GrantsGoHome' /\ sent' \in TokenRequest
  BY AuthorizationValues DEF GrantsGoHome, NoRequest
<1>8. QED
  BY <1>1, <1>4, <1>6, <1>7 DEF AuthorizationInv, AuthorizationTypeOK

LEMMA BeginAuthorizeSafe ==
  ASSUME AuthorizationInv, NEW settings \in Settings, NEW reset \in BOOLEAN, BeginAuthorize(settings, reset)
  PROVE  AuthorizationInv'
<1>1. flows' \in 0..MaxFlows /\ sent' = NoRequest
  BY DEF BeginAuthorize, AuthorizationInv, AuthorizationTypeOK
<1>2. \/ (Starts("authorize", settings, FALSE, "ended", "failed") \/ Starts("authorize", settings, FALSE, "ended", "reused"))
           /\ UNCHANGED stored
      \/ Starts("authorize", settings, TRUE, "resource", "none") /\ stored' = Nothing
      \/ Starts("authorize", settings, FALSE, "resource", "none") /\ UNCHANGED stored
  BY DEF BeginAuthorize
<1>3. QED
  BY <1>1, <1>2, StartsSafe

LEMMA BeginRefreshSafe ==
  ASSUME AuthorizationInv, NEW settings \in Settings, BeginRefresh(settings)
  PROVE  AuthorizationInv'
<1>1. flows' \in 0..MaxFlows /\ sent' = NoRequest /\ UNCHANGED stored
  BY DEF BeginRefresh, AuthorizationInv, AuthorizationTypeOK
<1>2. CASE Starts("refresh", settings, FALSE, "ended", "reused") \/ Starts("refresh", settings, FALSE, "ended", "failed")
  BY <1>1, <1>2, StartsSafe
<1>3. CASE CanRefresh(settings) /\ Starts("refresh", settings, FALSE, "resource", "none")
  <2>1. HasGrant(stored)
    BY <1>3 DEF CanRefresh
  <2>2. QED
    BY <1>1, <1>3, <2>1, StartsSafe
<1>4. CASE /\ CanRefresh(settings) /\ stored.discovery # NoDiscovery
           /\ flow' = [Starting("refresh", settings, FALSE, stored) EXCEPT !.at = "bind", !.discovery = stored.discovery]
  <2>1. stored \in Credentials /\ StoredInv(stored) /\ stored.discovery \in Discovery
    BY DEF AuthorizationInv, AuthorizationTypeOK, Credentials
  <2>2. PICK b, f : b \in BOOLEAN /\ f = Starting("refresh", settings, b, stored) /\ b = FALSE
    OBVIOUS
  <2>3. /\ f \in Flow /\ f.op = "refresh" /\ f.settings = settings /\ f.snapshot = stored /\ f.result = "none"
        /\ flow' = [f EXCEPT !.at = "bind", !.discovery = stored.discovery]
    <3>1. /\ f \in Flow /\ f.op = "refresh" /\ f.settings = settings /\ f.snapshot = stored /\ f.result = "none"
      BY <2>1, <2>2, FlowStarts
    <3>2. flow' = [f EXCEPT !.at = "bind", !.discovery = stored.discovery]
      BY <1>4, <2>2
    <3>3. QED
      BY <3>1, <3>2
  <2>4. /\ flow' \in Flow /\ flow'.op = "refresh" /\ flow'.snapshot = stored /\ flow'.result = "none"
        /\ flow'.at = "bind" /\ flow'.discovery = stored.discovery
    BY <2>1, <2>3 DEF Flow
  <2>5. HasGrant(stored) /\ ValidDiscovery(stored.discovery)
    BY <1>4 DEF CanRefresh
  <2>6. RefreshingInv(flow', stored)
    BY <1>4, <2>4, <2>5 DEF RefreshingInv
  <2>7. RunningInv(flow', stored)
    BY <2>1, <2>4, <2>5, <2>6 DEF RunningInv, StoredInv, Listed, ValidDiscovery
  <2>8. GrantsGoHome' /\ sent' \in TokenRequest
    BY <1>1, AuthorizationValues DEF GrantsGoHome, NoRequest
  <2>9. QED
    BY <1>1, <2>1, <2>4, <2>7, <2>8 DEF AuthorizationInv, AuthorizationTypeOK, FlowInv
<1>5. QED
  BY <1>2, <1>3, <1>4 DEF BeginRefresh

LEMMA FindResourceSafe == ASSUME AuthorizationInv, FindResource PROVE AuthorizationInv'
<1>1. flow.at = "resource" /\ Keeps
  BY DEF FindResource
<1>2. /\ flow \in Flow /\ RunningInv(flow, stored) /\ flow.snapshot \in Credentials /\ flow.discovery \in Discovery
      /\ flow.op \in {"authorize", "refresh"}
  BY <1>1, FlowIs
<1>3. ASSUME NEW issuer \in Issuers, NEW d \in Discovery, Listed(d),
             flow' = [flow EXCEPT !.at = "metadata", !.issuer = issuer, !.discovery = d]
      PROVE  AuthorizationInv'
  <2>1. issuer \in OptionalIssuer
    BY DEF OptionalIssuer
  <2>2. /\ flow' \in Flow /\ flow'.at = "metadata" /\ flow'.issuer = issuer /\ flow'.discovery = d
        /\ flow'.op = flow.op /\ flow'.snapshot = flow.snapshot /\ flow'.result = flow.result
    BY <1>2, <1>3, <2>1 DEF Flow
  <2>3. RunningInv(flow', stored)
    <3>1. AuthorizingInv(flow', stored)
      BY <2>2 DEF AuthorizingInv
    <3>2. flow.op = "refresh" => RefreshingInv(flow', stored)
      BY <1>2, <2>2 DEF RefreshingInv, RunningInv
    <3>3. QED
      BY <1>2, <1>3, <2>2, <3>1, <3>2 DEF RunningInv
  <2>4. QED
    BY <1>1, <2>2, <2>3, FlowMoves
<1>4. CASE flow' = [flow EXCEPT !.at = "metadata", !.issuer = "origin"]
  <2>1. flow' = [flow EXCEPT !.at = "metadata", !.issuer = "origin", !.discovery = flow.discovery]
    BY <1>2, <1>4 DEF Flow
  <2>2. Listed(flow.discovery) /\ "origin" \in Issuers
    BY <1>2 DEF RunningInv, Issuers
  <2>3. QED
    BY <1>2, <1>3, <2>1, <2>2
<1>5. ASSUME NEW resource \in Resources, NEW issuer \in Issuers, ValidResource(resource),
             flow' = [flow EXCEPT !.at = "metadata", !.issuer = issuer,
                                  !.discovery.resource = resource, !.discovery.listed = TRUE]
      PROVE  AuthorizationInv'
  <2>1. PICK d : d = [flow.discovery EXCEPT !.resource = resource, !.listed = TRUE]
    OBVIOUS
  <2>2. d \in Discovery /\ d.resource = resource /\ d.listed
    BY <1>2, <2>1 DEF Discovery, OptionalResource
  <2>3. flow' = [flow EXCEPT !.at = "metadata", !.issuer = issuer, !.discovery = d]
    BY <1>2, <1>5, <2>1 DEF Flow, Discovery
  <2>4. Listed(d)
    BY <1>5, <2>2 DEF Listed
  <2>5. QED
    BY <1>3, <2>2, <2>3, <2>4
<1>6. ASSUME NEW resource \in Resources, NEW first \in Issuers, NEW servers \in SUBSET Issuers,
             NEW issuer, issuer = IF BoundIssuer = "none" THEN first ELSE BoundIssuer,
             ValidResource(resource) /\ issuer \in servers,
             flow' = [flow EXCEPT !.at = "metadata", !.issuer = issuer,
                                  !.discovery.resource = resource, !.discovery.listed = TRUE]
      PROVE  AuthorizationInv'
  BY <1>5, <1>6
<1>7. Ends("failed") => AuthorizationInv'
  BY <1>1, FailsQuietly
<1>8. QED
  BY <1>4, <1>6, <1>7 DEF FindResource

LEMMA OfferedIs == MetadataOffered \subseteq [issuer : {"origin"}, pkce : BOOLEAN, registers : BOOLEAN,
                                              documents : BOOLEAN, answersIssuer : BOOLEAN, accepts : SUBSET Methods]
<1> DEFINE offers == [issuer : {"origin"}, pkce : BOOLEAN, registers : BOOLEAN, documents : BOOLEAN,
                      answersIssuer : BOOLEAN, accepts : SUBSET Methods]
           whole == [issuer |-> "origin", pkce |-> TRUE, registers |-> TRUE, documents |-> TRUE,
                     answersIssuer |-> FALSE, accepts |-> Methods]
<1>1. whole \in offers
  OBVIOUS
<1>2. ASSUME NEW w \in offers
      PROVE  {w, [w EXCEPT !.pkce = FALSE], [w EXCEPT !.registers = FALSE, !.documents = FALSE],
              [w EXCEPT !.answersIssuer = TRUE], [w EXCEPT !.accepts = {"basic"}]} \subseteq offers
  <2>1. {"basic"} \in SUBSET Methods
    BY DEF Methods
  <2>2. QED
    BY <2>1
<1>3. MetadataOffered = {whole, [whole EXCEPT !.pkce = FALSE], [whole EXCEPT !.registers = FALSE, !.documents = FALSE],
                         [whole EXCEPT !.answersIssuer = TRUE], [whole EXCEPT !.accepts = {"basic"}]}
  BY DEF MetadataOffered
<1> HIDE DEF whole
<1>4. QED
  BY <1>1, <1>2, <1>3

LEMMA FetchMetadataSafe == ASSUME AuthorizationInv, FetchMetadata PROVE AuthorizationInv'
<1>1. flow.at = "metadata" /\ Keeps
  BY DEF FetchMetadata
<1>2. /\ flow \in Flow /\ RunningInv(flow, stored) /\ flow.discovery \in Discovery
      /\ flow.op \in {"authorize", "refresh"} /\ flow.issuer \in Issuers
  BY <1>1, FlowIs DEF RunningInv
<1>3. ASSUME NEW offered \in MetadataOffered, NEW at, at = IF flow.op = "authorize" THEN "listen" ELSE "bind",
             NEW d, d = [flow.discovery EXCEPT !.url = flow.issuer,
                                               !.metadata = [offered EXCEPT !.issuer = flow.issuer]],
             flow' = [flow EXCEPT !.at = at, !.discovery = d]
      PROVE  AuthorizationInv'
  <2>0. (flow.op = "authorize" => at = "listen") /\ (flow.op # "authorize" => at = "bind")
    BY <1>3
  <2>1. PICK m : m = [offered EXCEPT !.issuer = flow.issuer]
    OBVIOUS
  <2>2. m \in Metadata /\ m.issuer = flow.issuer
    BY <1>2, <2>1, OfferedIs DEF Metadata
  <2>3. /\ d \in Discovery /\ d.url = flow.issuer /\ d.metadata.issuer = flow.issuer
        /\ d.resource = flow.discovery.resource /\ d.listed = flow.discovery.listed
    BY <1>2, <1>3, <2>1, <2>2 DEF Discovery, OptionalIssuer
  <2>4. /\ flow' \in Flow /\ flow'.at = at /\ flow'.issuer = flow.issuer /\ flow'.discovery = d
        /\ flow'.op = flow.op /\ flow'.snapshot = flow.snapshot /\ flow'.result = flow.result
    BY <1>2, <1>3, <2>3 DEF Flow
  <2>5. Listed(d)
    BY <1>2, <2>3 DEF RunningInv, Listed
  <2>6. d # NoDiscovery
    BY <1>2, <2>3 DEF NoDiscovery, Issuers
  <2>7. flow.op = "authorize" => AuthorizingInv(flow', stored)
    BY <2>0, <2>3, <2>4 DEF AuthorizingInv
  <2>8. flow.op = "refresh" => RefreshingInv(flow', stored)
    BY <1>2, <2>0, <2>3, <2>4, <2>5, <2>6 DEF RefreshingInv, RunningInv, ValidDiscovery, Listed
  <2>9. RunningInv(flow', stored) /\ at # "ended"
    BY <1>2, <2>0, <2>4, <2>5, <2>7, <2>8 DEF RunningInv
  <2>10. QED
    BY <1>1, <2>4, <2>9, FlowMoves
<1>4. Ends("failed") => AuthorizationInv'
  BY <1>1, FailsQuietly
<1>5. ASSUME NEW offered \in MetadataOffered, NEW claimed \in Issuers, claimed = flow.issuer,
             flow' = [flow EXCEPT !.at = IF flow.op = "authorize" THEN "listen" ELSE "bind",
                                  !.discovery = [flow.discovery EXCEPT !.url = flow.issuer,
                                                                       !.metadata = [offered EXCEPT !.issuer = claimed]]]
      PROVE  AuthorizationInv'
  BY <1>3, <1>5
<1>6. QED
  BY <1>4, <1>5 DEF FetchMetadata

LEMMA BindRedirectSafe == ASSUME AuthorizationInv, BindRedirect PROVE AuthorizationInv'
<1>1. flow.at = "listen" /\ Keeps
  BY DEF BindRedirect
<1>2. flow \in Flow /\ RunningInv(flow, stored) /\ flow.op \in {"authorize", "refresh"}
  BY <1>1, FlowIs
<1>3. ASSUME NEW port \in Ports, flow' = [flow EXCEPT !.at = "register", !.port = port] PROVE AuthorizationInv'
  <2>0. port \in 0..2
    BY DEF Ports
  <2>1. /\ flow' \in Flow /\ flow'.at = "register" /\ flow'.issuer = flow.issuer
        /\ flow'.discovery = flow.discovery /\ flow'.op = flow.op /\ flow'.snapshot = flow.snapshot
        /\ flow'.result = flow.result
    BY <1>2, <1>3, <2>0 DEF Flow
  <2>2. RunningInv(flow', stored)
    BY <1>1, <1>2, <2>1 DEF RunningInv, AuthorizingInv, RefreshingInv
  <2>3. QED
    BY <1>1, <2>1, <2>2, FlowMoves
<1>4. Ends("failed") => AuthorizationInv'
  BY <1>1, FailsQuietly
<1>5. QED
  BY <1>3, <1>4 DEF BindRedirect

(* The client of a flow: kept, configured or new, and the issuer's.        *)
LEMMA Registers ==
  ASSUME AuthorizationInv, flow.at = "register", Keeps, NEW client \in ClientInfo,
         client.issuer \in {"none", flow.issuer}, flow' = [flow EXCEPT !.at = "pending", !.client = client]
  PROVE  AuthorizationInv'
<1>1. flow \in Flow /\ RunningInv(flow, stored) /\ flow.op \in {"authorize", "refresh"}
  BY FlowIs
<1>2. /\ flow' \in Flow /\ flow'.at = "pending" /\ flow'.issuer = flow.issuer /\ flow'.client = client
      /\ flow'.discovery = flow.discovery /\ flow'.op = flow.op /\ flow'.snapshot = flow.snapshot
      /\ flow'.result = flow.result
  BY <1>1 DEF Flow
<1>3. RunningInv(flow', stored)
  BY <1>1, <1>2 DEF RunningInv, AuthorizingInv, RefreshingInv
<1>4. QED
  BY <1>2, <1>3, FlowMoves

LEMMA RegisterCachedSafe == ASSUME AuthorizationInv, RegisterCached PROVE AuthorizationInv'
<1>1. flow.at = "register" /\ Keeps
  BY DEF RegisterCached
<1> DEFINE kept == flow.snapshot.client
<1>2. flow.snapshot \in Credentials /\ kept \in ClientInfo
  <2>1. flow.snapshot \in Credentials
    BY <1>1, FlowIs
  <2>2. QED
    BY <2>1 DEF Credentials
<1>3. ASSUME kept.issuer \in {"none", flow.issuer},
             flow' = [flow EXCEPT !.at = "pending", !.client = [kept EXCEPT !.secret = HasSecret(flow.settings, kept)]]
      PROVE  AuthorizationInv'
  <2>1. HasSecret(flow.settings, kept) \in BOOLEAN
    BY DEF HasSecret
  <2>2. PICK client : client = [kept EXCEPT !.secret = HasSecret(flow.settings, kept)]
    OBVIOUS
  <2>3. client \in ClientInfo /\ client.issuer = kept.issuer
    <3>1. ASSUME NEW b \in BOOLEAN, NEW k \in ClientInfo, NEW m, m = [k EXCEPT !.secret = b]
          PROVE  m \in ClientInfo /\ m.issuer = k.issuer
      BY <3>1 DEF ClientInfo
    <3>2. QED
      BY <1>2, <2>1, <2>2, <3>1
  <2>4. QED
    BY <1>1, <1>3, <2>2, <2>3, Registers
<1>4. Ends("failed") => AuthorizationInv'
  BY <1>1, FailsQuietly
<1>5. QED
  BY <1>3, <1>4 DEF RegisterCached

LEMMA RegisterConfiguredSafe == ASSUME AuthorizationInv, RegisterConfigured PROVE AuthorizationInv'
<1>1. flow.at = "register" /\ Keeps
  BY DEF RegisterConfigured
<1> DEFINE settings == flow.settings
           client == [id |-> IF settings.client = "document" THEN DocumentClient ELSE ConfiguredClient,
                      issuer |-> flow.issuer, port |-> flow.port,
                      method |-> IF settings.method # "unset" THEN settings.method
                                 ELSE IF settings.secret = "none" THEN "none" ELSE "basic",
                      secret |-> settings.secret = "set"]
<1>2. settings \in Settings /\ flow.issuer \in OptionalIssuer /\ flow.port \in 0..2
  BY <1>1, FlowIs
<1>3. client \in ClientInfo /\ client.issuer = flow.issuer
  BY <1>2 DEF ClientInfo, Settings, Registrations, DocumentClient, ConfiguredClient, Methods
<1>4. flow' = [flow EXCEPT !.at = "pending", !.client = client] => AuthorizationInv'
  <2> HIDE DEF client
  <2> QED
    BY <1>1, <1>3, Registers
<1>5. Ends("failed") => AuthorizationInv'
  BY <1>1, FailsQuietly
<1>6. QED
  BY <1>4, <1>5 DEF RegisterConfigured

LEMMA RegisterNewSafe == ASSUME AuthorizationInv, RegisterNew PROVE AuthorizationInv'
<1>1. flow.at = "register" /\ Keeps
  BY DEF RegisterNew
<1>2. flow.issuer \in OptionalIssuer /\ flow.port \in 0..2 /\ flows \in 0..MaxFlows
  BY <1>1, FlowIs
<1>3. ASSUME NEW secret \in BOOLEAN,
             flow' = [flow EXCEPT !.at = "pending",
                                  !.client = [id |-> 3 + flows, issuer |-> flow.issuer, port |-> flow.port,
                                              method |-> IF secret THEN "basic" ELSE "none", secret |-> secret]]
      PROVE  AuthorizationInv'
  <2>1. PICK client : client = [id |-> 3 + flows, issuer |-> flow.issuer, port |-> flow.port,
                                method |-> IF secret THEN "basic" ELSE "none", secret |-> secret]
    OBVIOUS
  <2>2. client \in ClientInfo /\ client.issuer = flow.issuer
    BY <1>2, <2>1 DEF ClientInfo, Registrations, Methods
  <2>3. QED
    BY <1>1, <1>3, <2>1, <2>2, Registers
<1>4. Ends("failed") => AuthorizationInv'
  BY <1>1, FailsQuietly
<1>5. QED
  BY <1>3, <1>4 DEF RegisterNew

(* What is saved before the browser is asked: the tokens keep their client.*)
LEMMA SavePendingSafe == ASSUME AuthorizationInv, SavePending PROVE AuthorizationInv'
<1>1. flow.at = "pending" /\ UNCHANGED <<flows, sent>>
  BY DEF SavePending
<1>2. /\ flow \in Flow /\ stored \in Credentials /\ StoredInv(stored) /\ RunningInv(flow, stored)
      /\ flow.op \in {"authorize", "refresh"} /\ flow.snapshot \in Credentials
      /\ flow.issuer \in OptionalIssuer /\ flow.discovery \in Discovery /\ flow.client \in ClientInfo
  BY <1>1, FlowIs
<1>3. flow.op = "authorize" /\ AuthorizingInv(flow, stored) /\ Kinship(flow.snapshot)
      /\ stored.tokens = flow.snapshot.tokens
  BY <1>1, <1>2 DEF RunningInv, RefreshingInv
<1>4. CASE Ends("failed") /\ UNCHANGED stored
  BY <1>1, <1>4, FailsQuietly DEF Keeps
<1>5. ASSUME CanAuthenticate(flow.settings, flow.client, flow.discovery.metadata),
             NEW entry, entry = [stored EXCEPT !.discovery = flow.discovery, !.url = flow.issuer,
                                               !.resource = flow.discovery.resource, !.client = PendingClient],
             ValidRegistration(entry), ValidBinding(flow.settings, entry), stored' = entry, GoesOn("callback")
      PROVE  AuthorizationInv'
  <2>1. PendingClient \in ClientInfo /\ flow.discovery.resource \in OptionalResource
    BY <1>2 DEF PendingClient, Credentials, Discovery
  <2>2. /\ entry \in Credentials /\ entry.tokens = stored.tokens /\ entry.client = PendingClient
        /\ entry.discovery = flow.discovery
    BY <1>2, <1>5, <2>1 DEF Credentials
  <2>3. Kinship(entry)
    BY <1>2, <1>3, <2>2 DEF Kinship, StoredInv, HasGrant, PendingClient
  <2>4. StoredInv(entry)
    BY <1>5, <2>3, PlainlyBound DEF StoredInv
  <2>5. /\ flow' \in Flow /\ flow'.at = "callback" /\ flow'.issuer = flow.issuer /\ flow'.client = flow.client
        /\ flow'.discovery = flow.discovery /\ flow'.op = flow.op /\ flow'.snapshot = flow.snapshot
        /\ flow'.result = flow.result /\ flow'.settings = flow.settings
    BY <1>2, <1>5 DEF GoesOn, Flow
  <2>6. AuthorizingInv(flow', entry)
    BY <1>1, <1>3, <1>5, <2>2, <2>5 DEF AuthorizingInv
  <2>7. RunningInv(flow', entry)
    BY <1>1, <1>2, <1>3, <2>2, <2>5, <2>6 DEF RunningInv
  <2>8. QED
    BY <1>1, <1>5, <2>2, <2>4, <2>5, <2>7 DEF AuthorizationInv, AuthorizationTypeOK, FlowInv, GrantsGoHome
<1>6. QED
  BY <1>4, <1>5 DEF SavePending, Saves

LEMMA AwaitCallbackSafe == ASSUME AuthorizationInv, AwaitCallback PROVE AuthorizationInv'
<1>1. flow.at = "callback" /\ Keeps
  BY DEF AwaitCallback
<1>2. flow \in Flow /\ RunningInv(flow, stored) /\ flow.op \in {"authorize", "refresh"}
  BY <1>1, FlowIs
<1>3. ASSUME NEW answer \in CallbackAnswers, AnswersOfIssuers(answer), AnswersFlow(answer),
             flow' = [flow EXCEPT !.at = "exchange", !.code = answer.code]
      PROVE  AuthorizationInv'
  <2>1. answer.code \in OptionalIssuer /\ answer.code \in {"none", flow.issuer}
    BY <1>3 DEF CallbackAnswers, AnswersOfIssuers, AnswersFlow
  <2>2. /\ flow' \in Flow /\ flow'.at = "exchange" /\ flow'.issuer = flow.issuer /\ flow'.client = flow.client
        /\ flow'.discovery = flow.discovery /\ flow'.op = flow.op /\ flow'.snapshot = flow.snapshot
        /\ flow'.result = flow.result /\ flow'.settings = flow.settings /\ flow'.code = answer.code
    BY <1>2, <1>3, <2>1 DEF Flow
  <2>3. RunningInv(flow', stored)
    BY <1>1, <1>2, <2>1, <2>2 DEF RunningInv, AuthorizingInv, RefreshingInv
  <2>4. QED
    BY <1>1, <2>2, <2>3, FlowMoves
<1>4. Ends("failed") => AuthorizationInv'
  BY <1>1, FailsQuietly
<1>5. QED
  BY <1>3, <1>4 DEF AwaitCallback

(* The request to the token endpoint.                                      *)
LEMMA SendsHome ==
  ASSUME flow.discovery \in Discovery, NEW of \in OptionalIssuer, NEW issuedTo \in Registrations,
         NEW client \in ClientInfo, Sends(of, issuedTo, client),
         of \in {"none", flow.discovery.metadata.issuer},
         client.issuer \in {"none", flow.discovery.metadata.issuer},
         issuedTo # 0 => client.id = issuedTo
  PROVE  sent' \in TokenRequest /\ GrantsGoHome'
<1>1. flow.discovery.metadata.issuer \in OptionalIssuer
  BY DEF Discovery, Metadata, OptionalIssuer
<1>2. client.issuer \in OptionalIssuer /\ client.id \in Registrations
  BY DEF ClientInfo
<1>3. QED
  BY <1>1, <1>2 DEF Sends, TokenRequest, GrantsGoHome

LEMMA IssuedIs ==
  ASSUME flows \in 0..MaxFlows, flow.discovery \in Discovery, NEW refresh \in BOOLEAN, NEW client \in ClientInfo
  PROVE  /\ Issued(refresh, client) \in Grant /\ Issued(refresh, client).commit = client
         /\ Issued(refresh, client).of = Issued(refresh, client).issuer /\ Issued(refresh, client).client = client.id
<1>1. flow.discovery.metadata.issuer \in OptionalIssuer
  BY DEF Discovery, Metadata, OptionalIssuer
<1>2. client.id \in Registrations
  BY DEF ClientInfo
<1>3. flows + 1 \in 0..(MaxFlows + 1)
  OBVIOUS
<1>4. QED
  BY <1>1, <1>2, <1>3 DEF Issued, Grant

(* A flow that ends with new tokens.                                       *)
LEMMA FlowDone ==
  ASSUME AuthorizationInv, flow.at # "ended", Ends("done"), UNCHANGED flows,
         sent' \in TokenRequest, GrantsGoHome', stored' \in Credentials, Kinship(stored'), ValidRegistration(stored'),
         ValidBinding(flow.settings, stored'), ValidDiscovery(stored'.discovery),
         CanAuthenticate(flow.settings, stored'.client, stored'.discovery.metadata)
  PROVE  AuthorizationInv'
<1>1. flow \in Flow /\ flow.op # "none"
  BY FlowIs
<1>2. flow' \in Flow /\ flow'.at = "ended" /\ flow'.result = "done" /\ flow'.settings = flow.settings
  BY <1>1, FlowEnds
<1>3. EndedInv(flow', stored')
  BY <1>2 DEF EndedInv
<1>4. StoredInv(stored')
  BY PlainlyBound DEF StoredInv
<1>5. QED
  BY <1>2, <1>3, <1>4 DEF AuthorizationInv, AuthorizationTypeOK, FlowInv

LEMMA ExchangeSafe == ASSUME AuthorizationInv, Exchange PROVE AuthorizationInv'
<1>1. flow.at = "exchange" /\ UNCHANGED flows /\ Sends(flow.code, flow.client.id, flow.client)
  BY DEF Exchange
<1>2. /\ flow \in Flow /\ stored \in Credentials /\ flows \in 0..MaxFlows /\ RunningInv(flow, stored)
      /\ flow.op \in {"authorize", "refresh"} /\ flow.discovery \in Discovery /\ flow.client \in ClientInfo
  BY <1>1, FlowIs
<1>3. /\ flow.discovery.metadata.issuer = flow.issuer /\ flow.discovery.url = flow.issuer
      /\ flow.client.issuer \in {"none", flow.issuer} /\ flow.code \in {"none", flow.issuer}
      /\ stored.discovery = flow.discovery /\ Listed(flow.discovery)
      /\ CanAuthenticate(flow.settings, flow.client, flow.discovery.metadata)
  BY <1>1, <1>2 DEF RunningInv, RefreshingInv, AuthorizingInv
<1>4. sent' \in TokenRequest /\ GrantsGoHome'
  <2>1. flow.code \in OptionalIssuer /\ flow.client.id \in Registrations
    BY <1>2 DEF Flow, ClientInfo
  <2>2. QED
    BY <1>1, <1>2, <1>3, <2>1, SendsHome
<1>5. CASE Ends("failed") /\ UNCHANGED stored
  BY <1>1, <1>4, <1>5, FlowFails
<1>6. ASSUME NEW refresh \in BOOLEAN, NEW entry,
             entry = [stored EXCEPT !.tokens = Issued(refresh, flow.client), !.client = flow.client],
             ValidBinding(flow.settings, entry), stored' = entry, Ends("done")
      PROVE  AuthorizationInv'
  <2>1. PICK t : t = Issued(refresh, flow.client)
    OBVIOUS
  <2>2. t \in Grant /\ t.commit = flow.client /\ t.of = t.issuer /\ t.client = flow.client.id
    BY <1>2, <2>1, IssuedIs
  <2>3. /\ entry \in Credentials /\ entry.tokens = t /\ entry.client = flow.client
        /\ entry.discovery = stored.discovery
    BY <1>2, <1>6, <2>1, <2>2 DEF Credentials
  <2>4. Kinship(entry) /\ ValidRegistration(entry)
    BY <2>2, <2>3 DEF Kinship, ValidRegistration
  <2>5. ValidDiscovery(entry.discovery)
    BY <1>3, <2>3 DEF ValidDiscovery, Listed
  <2>6. CanAuthenticate(flow.settings, entry.client, entry.discovery.metadata)
    BY <1>3, <2>3
  <2>7. QED
    BY <1>1, <1>4, <1>6, <2>3, <2>4, <2>5, <2>6, FlowDone
<1>7. QED
  BY <1>5, <1>6 DEF Exchange

LEMMA CheckBindingSafe == ASSUME AuthorizationInv, CheckBinding PROVE AuthorizationInv'
<1>1. flow.at = "bind" /\ Keeps
  BY DEF CheckBinding
<1>2. flow \in Flow /\ RunningInv(flow, stored) /\ flow.op \in {"authorize", "refresh"}
  BY <1>1, FlowIs
<1>3. ASSUME ValidBinding(flow.settings, BoundBy(flow.discovery)),
             CanAuthenticate(flow.settings, flow.snapshot.client, flow.discovery.metadata), GoesOn("request")
      PROVE  AuthorizationInv'
  <2>1. /\ flow' \in Flow /\ flow'.at = "request" /\ flow'.issuer = flow.issuer
        /\ flow'.discovery = flow.discovery /\ flow'.op = flow.op /\ flow'.snapshot = flow.snapshot
        /\ flow'.result = flow.result /\ flow'.settings = flow.settings
    BY <1>2, <1>3 DEF GoesOn, Flow
  <2>2. flow.op = "refresh" /\ RefreshingInv(flow', stored)
    BY <1>1, <1>2, <1>3, <2>1 DEF RunningInv, AuthorizingInv, RefreshingInv, BoundBy
  <2>3. RunningInv(flow', stored)
    BY <1>2, <2>1, <2>2 DEF RunningInv
  <2>4. QED
    BY <1>1, <2>1, <2>3, FlowMoves
<1>4. Ends("failed") => AuthorizationInv'
  BY <1>1, FailsQuietly
<1>5. QED
  BY <1>3, <1>4 DEF CheckBinding

LEMMA RefreshSafe == ASSUME AuthorizationInv, Refresh PROVE AuthorizationInv'
<1> DEFINE client == flow.snapshot.client
<1>1. flow.at = "request" /\ UNCHANGED flows /\ Sends(stored.tokens.of, stored.tokens.client, client)
  BY DEF Refresh
<1>2. /\ flow \in Flow /\ stored \in Credentials /\ flows \in 0..MaxFlows /\ RunningInv(flow, stored)
      /\ StoredInv(stored) /\ flow.op \in {"authorize", "refresh"} /\ flow.discovery \in Discovery
  BY <1>1, FlowIs
<1>3. /\ flow.snapshot = stored /\ HasGrant(stored) /\ ValidDiscovery(flow.discovery) /\ flow.discovery # NoDiscovery
      /\ CanAuthenticate(flow.settings, client, flow.discovery.metadata)
      /\ ValidBinding(flow.settings, [stored EXCEPT !.discovery = flow.discovery])
  BY <1>1, <1>2 DEF RunningInv, RefreshingInv, AuthorizingInv
<1>4. client \in ClientInfo /\ stored.tokens \in Grant /\ client = stored.client
  BY <1>2, <1>3 DEF Credentials
<1>5. sent' \in TokenRequest /\ GrantsGoHome'
  <2>1. PICK c : c = [stored EXCEPT !.discovery = flow.discovery]
    OBVIOUS
  <2>2. c.discovery = flow.discovery /\ c.tokens = stored.tokens /\ c.client = client
    BY <1>2, <1>4, <2>1 DEF Credentials
  <2>3. {stored.tokens.issuer, client.issuer, flow.discovery.metadata.issuer} \subseteq NamedIssuers(c)
    BY <1>3, <2>2 DEF NamedIssuers
  <2>4. flow.discovery.metadata.issuer # "none"
    BY <1>2 DEF Discovery, Metadata, Issuers
  <2>5. \A x, y \in NamedIssuers(c) \ {"none"} : x = y
    BY <1>3, <2>1, BoundToOne
  <2>6. stored.tokens.issuer \in {"none", flow.discovery.metadata.issuer}
        /\ client.issuer \in {"none", flow.discovery.metadata.issuer}
    BY <2>3, <2>4, <2>5
  <2>7. stored.tokens.of = stored.tokens.issuer /\ stored.tokens.client = client.id
    BY <1>2, <1>3, <1>4 DEF StoredInv, Kinship
  <2>8. stored.tokens.of \in OptionalIssuer /\ stored.tokens.client \in Registrations
    BY <1>4 DEF Grant
  <2>9. QED
    BY <1>1, <1>2, <1>4, <2>6, <2>7, <2>8, SendsHome
<1>6. CASE Ends("failed") /\ UNCHANGED stored
  BY <1>1, <1>5, <1>6, FlowFails
<1>7. ASSUME NEW entry, entry = [stored EXCEPT !.tokens = Issued(TRUE, client), !.discovery = flow.discovery],
             ValidBinding(flow.settings, entry), stored' = entry, Ends("done")
      PROVE  AuthorizationInv'
  <2>1. PICK t, b : b \in BOOLEAN /\ b = TRUE /\ t = Issued(b, client)
    OBVIOUS
  <2>2. t \in Grant /\ t.commit = client /\ t.of = t.issuer /\ t.client = client.id
    BY <1>2, <1>4, <2>1, IssuedIs
  <2>3. entry = [stored EXCEPT !.tokens = t, !.discovery = flow.discovery]
    BY <1>7, <2>1
  <2>4. /\ entry \in Credentials /\ entry.tokens = t /\ entry.client = client
        /\ entry.discovery = flow.discovery
    BY <1>2, <1>4, <2>2, <2>3 DEF Credentials
  <2>5. Kinship(entry) /\ ValidRegistration(entry)
    BY <2>2, <2>4 DEF Kinship, ValidRegistration
  <2>6. ValidDiscovery(entry.discovery) /\ CanAuthenticate(flow.settings, entry.client, entry.discovery.metadata)
    BY <1>3, <2>4
  <2>7. QED
    BY <1>1, <1>5, <1>7, <2>4, <2>5, <2>6, FlowDone
<1>8. QED
  BY <1>6, <1>7 DEF Refresh

LEMMA InterruptedSafe == ASSUME AuthorizationInv, Interrupted PROVE AuthorizationInv'
BY FailsQuietly DEF Interrupted

LEMMA TokensExpireSafe == ASSUME AuthorizationInv, TokensExpire PROVE AuthorizationInv'
<1>1. /\ flow.at = "ended" /\ UNCHANGED <<flow, flows, sent>> /\ stored' = [stored EXCEPT !.tokens.expired = TRUE]
  BY DEF TokensExpire
<1>2. stored \in Credentials /\ stored.tokens \in Grant /\ StoredInv(stored) /\ EndedInv(flow, stored)
  BY <1>1 DEF AuthorizationInv, AuthorizationTypeOK, FlowInv, Credentials
<1>3. PICK t : t = [stored.tokens EXCEPT !.expired = TRUE]
  OBVIOUS
<1>4. /\ t \in Grant /\ t.id = stored.tokens.id /\ t.issuer = stored.tokens.issuer /\ t.of = stored.tokens.of
      /\ t.commit = stored.tokens.commit /\ t.client = stored.tokens.client
  BY <1>2, <1>3 DEF Grant
<1>5. stored' = [stored EXCEPT !.tokens = t]
  BY <1>1, <1>2, <1>3 DEF Credentials
<1>6. /\ stored' \in Credentials /\ stored'.tokens = t /\ stored'.client = stored.client
      /\ stored'.discovery = stored.discovery /\ stored'.url = stored.url /\ stored'.resource = stored.resource
  BY <1>2, <1>4, <1>5 DEF Credentials
<1>7. NamedIssuers(stored') = NamedIssuers(stored)
  BY <1>4, <1>6 DEF NamedIssuers
<1>8. \A s : ValidBinding(s, stored') = ValidBinding(s, stored)
  BY <1>6, <1>7 DEF ValidBinding
<1>9. StoredInv(stored')
  BY <1>2, <1>4, <1>6, <1>8 DEF StoredInv, Kinship, HasGrant, ValidRegistration
<1>10. EndedInv(flow', stored')
  BY <1>1, <1>2, <1>4, <1>6, <1>8 DEF EndedInv
<1>11. QED
  BY <1>1, <1>6, <1>9, <1>10 DEF AuthorizationInv, AuthorizationTypeOK, FlowInv, GrantsGoHome

-----------------------------------------------------------------------------
(* All of them.                                                            *)

LEMMA AuthorizationStarts ==
  ASSUME NEW seeds, seeds \subseteq AcceptedSeeds, AuthorizationInit(seeds)
  PROVE  AuthorizationInv
<1>1. stored \in Credentials /\ StoredInv(stored)
  <2>1. CASE stored = Nothing
    BY <2>1, NothingIsBound, AuthorizationValues
  <2>2. CASE stored # Nothing
    <3>1. /\ stored \in Credentials /\ ValidBinding(PlainSettings, stored) /\ stored.tokens.commit = stored.client
          /\ stored.tokens.of = stored.tokens.issuer /\ stored.tokens.client = stored.client.id
      BY <2>2 DEF AuthorizationInit, AcceptedSeeds, AcceptedPayload
    <3>2. QED
      BY <3>1 DEF StoredInv, Kinship, ValidRegistration
  <2>3. QED
    BY <2>1, <2>2
<1>2. flow \in Flow /\ flow.at = "ended" /\ flow.result = "none"
  BY AuthorizationValues DEF AuthorizationInit, NoFlow
<1>3. FlowInv(flow, stored)
  BY <1>2 DEF FlowInv, EndedInv
<1>4. sent \in TokenRequest /\ GrantsGoHome /\ flows \in 0..MaxFlows
  BY AuthorizationValues DEF AuthorizationInit, NoRequest, GrantsGoHome
<1>5. QED
  BY <1>1, <1>2, <1>3, <1>4 DEF AuthorizationInv, AuthorizationTypeOK

LEMMA AuthorizationKeeps ==
  ASSUME NEW settings, settings \subseteq Settings
  PROVE  AuthorizationInv /\ [AuthorizationNext(settings)]_authorizationVars => AuthorizationInv'
<1> SUFFICES ASSUME AuthorizationInv, [AuthorizationNext(settings)]_authorizationVars PROVE AuthorizationInv'
  OBVIOUS
<1>1. ASSUME NEW s \in settings, NEW reset \in BOOLEAN, BeginAuthorize(s, reset) PROVE AuthorizationInv'
  BY <1>1, BeginAuthorizeSafe
<1>2. ASSUME NEW s \in settings, BeginRefresh(s) PROVE AuthorizationInv'
  BY <1>2, BeginRefreshSafe
<1>3. CASE FindResource
  BY <1>3, FindResourceSafe
<1>4. CASE FetchMetadata
  BY <1>4, FetchMetadataSafe
<1>5. CASE BindRedirect
  BY <1>5, BindRedirectSafe
<1>6. CASE RegisterCached
  BY <1>6, RegisterCachedSafe
<1>7. CASE RegisterConfigured
  BY <1>7, RegisterConfiguredSafe
<1>8. CASE RegisterNew
  BY <1>8, RegisterNewSafe
<1>9. CASE SavePending
  BY <1>9, SavePendingSafe
<1>10. CASE AwaitCallback
  BY <1>10, AwaitCallbackSafe
<1>11. CASE Exchange
  BY <1>11, ExchangeSafe
<1>12. CASE CheckBinding
  BY <1>12, CheckBindingSafe
<1>13. CASE Refresh
  BY <1>13, RefreshSafe
<1>14. CASE Interrupted
  BY <1>14, InterruptedSafe
<1>15. CASE TokensExpire
  BY <1>15, TokensExpireSafe
<1>16. CASE UNCHANGED authorizationVars
  BY <1>16 DEF authorizationVars, AuthorizationInv, AuthorizationTypeOK, GrantsGoHome
<1>17. QED
  BY <1>1, <1>2, <1>3, <1>4, <1>5, <1>6, <1>7, <1>8, <1>9, <1>10, <1>11, <1>12, <1>13, <1>14, <1>15, <1>16
     DEF AuthorizationNext

LEMMA AuthorizationInvSafe == AuthorizationInv => AuthorizationTypeOK /\ AuthorizationSafety
<1> SUFFICES ASSUME AuthorizationInv PROVE AuthorizationTypeOK /\ AuthorizationSafety
  OBVIOUS
<1>1. flow.at # "ended" => flow.result = "none"
  BY DEF AuthorizationInv, FlowInv, RunningInv
<1>2. flow.at = "ended" => EndedInv(flow, stored)
  BY DEF AuthorizationInv, FlowInv
<1>3. TokensKeepTheirClient /\ Readable(PlainSettings)
  BY DEF AuthorizationInv, StoredInv, Kinship, TokensKeepTheirClient, Readable
<1>4. FailureKeepsCredentials /\ RefreshFollows
  BY <1>1, <1>2, <1>3 DEF EndedInv, FailureKeepsCredentials, RefreshFollows, Readable
<1>5. QED
  BY <1>3, <1>4 DEF AuthorizationInv, AuthorizationSafety

(* However a site answers, and whenever a flow is given up: a code or a    *)
(* refresh token goes to the issuer it came from, by the client it was     *)
(* issued to; tokens stay with that client; a flow that fails leaves them; *)
(* and what a flow obtained can be refreshed (oauth_flow.rs, exchange;     *)
(* oauth_protocol.rs, refresh; oauth_store.rs, validate_binding), for any  *)
(* number of flows, any settings and any credentials that an import        *)
(* accepts.                                                                *)
THEOREM AuthorizationSafe ==
  ASSUME NEW seeds, NEW settings, seeds \subseteq AcceptedSeeds, settings \subseteq Settings
  PROVE  AuthorizationInit(seeds) /\ [][AuthorizationNext(settings)]_authorizationVars
           => [](AuthorizationTypeOK /\ AuthorizationSafety)
<1>1. AuthorizationInit(seeds) => AuthorizationInv
  BY AuthorizationStarts
<1>2. QED
  BY <1>1, AuthorizationKeeps, AuthorizationInvSafe, PTL
=============================================================================
