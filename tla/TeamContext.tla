----------------------------- MODULE TeamContext -----------------------------
(* The local mirror of the team context (core/team_context.py): TEAM.md, one
   peer's advertising memory and the silicon's own one, with the state file that
   says what of it Glass has verified.  One operation at a time holds _sync_lock;
   its steps are its requests to Glass and the disk writes between them.  Glass,
   the credential in .glass.json, the manager's editor and the readers of the
   prompt do not take the lock.  A credential is <<silicon, key>>; bytes are
   versions; a file that is not a valid memory is left out. *)
EXTENDS Integers, FiniteSets

CONSTANTS Creds,      \* credentials .glass.json may hold: <<silicon, key>>
          Bodies,     \* contents of an advertising memory, positive numbers
          MaxWorld,   \* drafts, and changes by Glass and of the configuration
          MaxFaults   \* failed disk writes and crashes

TAssumption == /\ Bodies \subseteq Nat \ {0} /\ MaxWorld \in Nat /\ MaxFaults \in Nat
               /\ \A c \in Creds : c[1] # "none"

VARIABLES
  glass,   \* the team's revision, the peer's version, own memories, denied credentials
  conf,    \* the credential in .glass.json
  st,      \* the saved state
  mem,     \* the state an operation works on
  disk,    \* TEAM.md, peer file, own files, visibility block, draft archive
  op,      \* the operation that holds the lock
  pc,
  world, faults,
  told,    \* history: credentials Glass refused last
  last,    \* history: the last draft saved for each silicon
  known    \* history: memories Glass has had, and those a silicon has synced
tvars == <<glass, conf, st, mem, disk, op, pc, world, faults, told, last, known>>

Owner(c) == c[1]
Silicons == {Owner(c) : c \in Creds}
Empty == 0
Absent == -1
NoCred == <<"none", 0>>
NoCtx == [who |-> NoCred, rev |-> 0, peer |-> 0, own |-> [rev |-> 0, body |-> Empty]]
NoOwn == [who |-> "none", base |-> Absent, brev |-> 0, st |-> "none", crev |-> -1]
Placeholder == <<NoCred, 0>>
Stamp(ctx) == <<ctx.who, ctx.rev>>
NoOp == [kind |-> "none", body |-> Absent, res |-> FALSE, full |-> FALSE, cred |-> NoCred,
         was |-> [id |-> NoCred, valid |-> TRUE, peer |-> 0, ctx |-> FALSE, team |-> Placeholder],
         ent |-> NoCtx.own, found |-> Absent, exp |-> 0, err |-> FALSE, good |-> FALSE, hid |-> FALSE]

Me == Owner(op.cred)
Spend(n) == faults + n <= MaxFaults /\ faults' = faults + n
(* The disk writes of a step that fail. *)
Failing(bad, S) == bad \subseteq S /\ Spend(Cardinality(bad))
Denied == op.cred \in glass.denied
Goto(p) == pc' = p

-----------------------------------------------------------------------------
(* What a reader of the prompt gets: read_verified_team_markdown. *)
Visible == /\ ~disk.block /\ st.valid /\ st.id = conf /\ st.ctx.who = conf
           /\ disk.team = Stamp(st.ctx)

(* _invalidate_team_visibility: block, prune what Glass managed, forget the
   context, write the placeholder.  A file is unlinked only behind a block. *)
Pruned(s, d, bad) == s.peer # 0 /\ "prune" \notin bad /\ (d.block \/ d.peer = 0 \/ "block" \notin bad)
HiddenState(s, d, bad) == [s EXCEPT !.ctx = NoCtx, !.peer = IF Pruned(s, d, bad) THEN 0 ELSE @]
HiddenDisk(s, d, bad) ==
  [d EXCEPT !.block = @ \/ "block" \notin bad,
            !.peer = IF Pruned(s, d, bad) THEN 0 ELSE @,
            !.team = IF "team" \in bad THEN @ ELSE Placeholder]
HideFaults == {"block", "prune", "team"}

(* _transition_identity: another principal finds the former owner's unpublished
   draft archived and its path free, and its own path in conflict. *)
Unsynced(s, d, w) == d.own[w] # Absent /\ ~(s.own.who = w /\ s.own.base = d.own[w])
Same(s, c) == s.id = c /\ s.valid
NewOwner(s, c) == s.id = NoCred \/ Owner(s.id) # Owner(c)
Leaving(s, c) == IF s.id = NoCred THEN Silicons \ {Owner(c)}
                 ELSE IF Owner(s.id) # Owner(c) THEN {Owner(s.id)} ELSE {}
(* Fault: the former owner's path is freed without an archive. *)
ArchivedNone(s, d, c) == {}
Archived(s, d, c) ==
  {<<w, d.own[w]>> : w \in {v \in Leaving(s, c) :
                              d.own[v] # Absent /\ (s.id = NoCred \/ Unsynced(s, d, v))}}
MovedDisk(s, d, c, bad) ==
  LET h == HiddenDisk(s, d, bad)
  IN [h EXCEPT !.own = [w \in Silicons |-> IF w \in Leaving(s, c) THEN Absent ELSE @[w]],
               !.arch = @ \cup Archived(s, d, c),
               !.peer = IF s.id = NoCred THEN 0 ELSE @]
MovedState(s, d, c, bad) ==
  [HiddenState(s, d, bad) EXCEPT !.id = c, !.valid = TRUE,
     !.own = IF ~NewOwner(s, c) THEN @
             ELSE IF d.own[Owner(c)] = Absent THEN NoOwn
             ELSE [NoOwn EXCEPT !.who = Owner(c), !.st = "conflict"]]

-----------------------------------------------------------------------------
(* An operation takes the lock and loads the state. *)
Begin(kind, body, res, due, next) ==
  /\ pc = "idle" /\ Goto(next)
  /\ mem' = st
  /\ op' = [NoOp EXCEPT !.kind = kind, !.body = body, !.res = res, !.cred = conf, !.full = due,
                        !.ent = st.ctx.own,
                        !.was = [id |-> st.id, valid |-> st.valid, peer |-> st.peer,
                                 ctx |-> st.ctx # NoCtx, team |-> disk.team]]
  /\ UNCHANGED <<glass, conf, st, disk, faults, told, last, known>>
(* reconcile_team_context, and team_context_tick when it is due. *)
Reconcile == Begin("sync", Absent, FALSE, TRUE, "scope") /\ UNCHANGED world
NeedsFull == ~st.valid \/ st.id = NoCred \/ st.ctx = NoCtx \/ st.ctx.who # st.id \/ disk.block
ScopeChanged == st.id # NoCred /\ st.valid /\ st.id # conf
(* team_context_tick in between: only the own file, by the cached manifest. *)
Tick == ~NeedsFull /\ ~ScopeChanged /\ UNCHANGED world
        /\ Begin("sync", Absent, FALSE, FALSE, "own")
Event == world < MaxWorld /\ world' = world + 1
Update(body, res) == Event /\ Begin("update", body, res, TRUE, "scope")

(* _mark_configured_scope_change *)
Scope(bad) ==
  /\ pc = "scope" /\ Goto("ident")
  /\ IF mem.id # NoCred /\ mem.id # op.cred
       THEN /\ Failing(bad, HideFaults)
            /\ disk' = HiddenDisk(mem, disk, bad)
            /\ mem' = [HiddenState(mem, disk, bad) EXCEPT !.valid = FALSE]
       ELSE bad = {} /\ UNCHANGED <<disk, mem, faults>>
  /\ UNCHANGED <<glass, conf, st, op, world, told, last, known>>

(* _fetch_identity answers; a failure to archive stops the transition. *)
Identified(bad) ==
  /\ pc = "ident" /\ ~Denied
  /\ IF Same(mem, op.cred) THEN bad = {} /\ UNCHANGED <<disk, mem, op, faults>>
     ELSE /\ Failing(bad, HideFaults)
          /\ disk' = MovedDisk(mem, disk, op.cred, bad)
          /\ mem' = MovedState(mem, disk, op.cred, bad)
          /\ op' = [op EXCEPT !.hid = disk.peer # disk'.peer]
  /\ Goto(IF op.kind = "update" THEN "write" ELSE "ctx")
  /\ told' = told \ {op.cred}
  /\ UNCHANGED <<glass, conf, st, world, last, known>>
SavedApart(d) == [d EXCEPT !.arch = @ \cup {<<Me, op.body>>}]
LastDraft == last' = [last EXCEPT ![Me] = op.body]
(* _archive_explicit_draft *)
SaveApart(d) == IF op.kind = "update" THEN disk' = SavedApart(d) /\ LastDraft
                ELSE disk' = d /\ UNCHANGED last
Unarchived ==
  /\ pc = "ident" /\ ~Denied /\ ~Same(mem, op.cred) /\ Archived(mem, disk, op.cred) # {}
  /\ Spend(1) /\ Goto("save")
  /\ SaveApart(HiddenDisk(mem, disk, {}))
  /\ mem' = [HiddenState(mem, disk, {}) EXCEPT !.valid = FALSE]
  /\ UNCHANGED <<glass, conf, st, op, world, told, known>>
(* Glass does not answer: an edit is kept under the cached identity, or apart. *)
Unidentified ==
  /\ pc = "ident"
  /\ IF op.kind = "update" /\ mem.valid /\ mem.id = op.cred
       THEN /\ Goto("write") /\ op' = [op EXCEPT !.full = FALSE]
            /\ UNCHANGED <<disk, last>>
       ELSE Goto("save") /\ SaveApart(disk) /\ UNCHANGED op
  /\ UNCHANGED <<glass, conf, st, mem, world, faults, told, known>>

(* Any request may be refused with 401, 403 or 404: _invalidate_team_access. *)
Asking == {"ident", "fetch", "put", "refused", "ctx", "peers", "down"}
Refused(bad) ==
  /\ pc \in Asking /\ Denied /\ Goto("save")
  /\ Failing(bad, HideFaults)
  /\ LET d == HiddenDisk(mem, disk, bad)
     IN IF pc = "ident" THEN SaveApart(d) ELSE disk' = d /\ UNCHANGED last
  /\ mem' = [HiddenState(mem, disk, bad) EXCEPT !.valid = FALSE]
  /\ op' = [op EXCEPT !.hid = FALSE]
  /\ told' = told \cup {op.cred}
  /\ UNCHANGED <<glass, conf, st, world, known>>

-----------------------------------------------------------------------------
(* The own memory. *)
Based(own) == own.who = Me /\ own.base # Absent
SetBase(remote) == [who |-> Me, base |-> remote.body, brev |-> remote.rev, st |-> "synced", crev |-> -1]
Marked(own, rev) == [own EXCEPT !.who = Me, !.st = "conflict", !.crev = IF rev > @ THEN rev ELSE @]
Adopt(remote) == /\ mem' = [mem EXCEPT !.own = SetBase(remote)]
                 /\ known' = [known EXCEPT !.seen[Me] = @ \cup {remote.body}]
Content == IF op.kind = "update" THEN op.body ELSE op.found
AfterOwn == IF op.kind = "sync" /\ op.full THEN "fin" ELSE "save"
Remote == glass.own[Me]

(* update_own_advertising_memory writes the draft first, then uploads it. *)
Write ==
  /\ pc = "write"
  /\ disk' = [disk EXCEPT !.own[Me] = op.body] /\ LastDraft
  /\ IF ~op.full                                  \* Glass did not answer
       THEN /\ Goto("save") /\ UNCHANGED op
            /\ mem' = [mem EXCEPT !.own.who = Me, !.own.st = "pending"]
     ELSE IF mem.own.st = "conflict" /\ ~op.res
       THEN Goto("save") /\ mem' = [mem EXCEPT !.own = Marked(@, @.crev)] /\ UNCHANGED op
     ELSE IF Based(mem.own) /\ ~op.res
       THEN Goto("put") /\ op' = [op EXCEPT !.exp = mem.own.brev] /\ UNCHANGED mem
     ELSE Goto("fetch") /\ UNCHANGED <<mem, op>>
  /\ UNCHANGED <<glass, conf, st, world, faults, told, known>>
WriteFails == /\ pc = "write" /\ Spend(1) /\ Goto("idle") /\ mem' = st /\ op' = NoOp
              /\ UNCHANGED <<glass, conf, st, disk, world, told, last, known>>
(* _upload_explicit_own without a base, or to resolve a conflict. *)
Fetch ==
  /\ pc = "fetch" /\ ~Denied
  /\ IF Remote.body = op.body THEN Goto("save") /\ Adopt(Remote) /\ UNCHANGED op
     ELSE IF op.res \/ Remote = [rev |-> 0, body |-> Empty]
       THEN Goto("put") /\ op' = [op EXCEPT !.exp = Remote.rev] /\ UNCHANGED <<mem, known>>
     ELSE /\ Goto("save") /\ mem' = [mem EXCEPT !.own = Marked(@, Remote.rev)]
          /\ UNCHANGED <<op, known>>
  /\ UNCHANGED <<glass, conf, st, disk, world, faults, told, last>>
(* A request of the own memory fails: an edit is pending, a sync is partial. *)
Pending(m) == IF op.kind = "update" /\ m.own.st # "conflict"
                THEN [m EXCEPT !.own.who = Me, !.own.st = "pending"] ELSE m
Unheard == /\ Goto(AfterOwn) /\ mem' = Pending(mem)
           /\ op' = [op EXCEPT !.err = TRUE]
OwnDown ==
  /\ pc \in {"fetch", "put", "down"} /\ Unheard
  /\ UNCHANGED <<glass, conf, st, disk, world, faults, told, last, known>>
(* The PUT names the revision it replaces. *)
Accepts == /\ pc = "put" /\ ~Denied /\ op.exp = Remote.rev
           /\ glass' = IF Remote.body = Content THEN glass
                       ELSE [glass EXCEPT !.own[Me] = [rev |-> Remote.rev + 1, body |-> Content]]
Put ==
  /\ Accepts /\ Goto(AfterOwn)
  /\ mem' = [mem EXCEPT !.own = SetBase(glass'.own[Me])]
  /\ known' = [known EXCEPT !.seen[Me] = @ \cup {Content}, !.pub = @ \cup {<<Me, Content>>}]
  /\ UNCHANGED <<conf, st, disk, op, world, faults, told, last>>
PutUnheard ==
  /\ Accepts /\ Unheard
  /\ known' = [known EXCEPT !.pub = @ \cup {<<Me, Content>>}]
  /\ UNCHANGED <<conf, st, disk, world, faults, told, last>>
PutRefused ==
  /\ pc = "put" /\ ~Denied /\ op.exp # Remote.rev /\ Goto("refused")
  /\ op' = [op EXCEPT !.exp = Remote.rev]
  /\ UNCHANGED <<glass, conf, st, mem, disk, world, faults, told, last, known>>
(* A 409 is followed by a read of what Glass has, if it can be had. *)
Compare ==
  /\ pc = "refused" /\ Goto(AfterOwn)
  /\ \/ /\ ~Denied /\ Remote.body = Content /\ Adopt(Remote)
     \/ /\ ~Denied /\ Remote.body # Content
        /\ mem' = [mem EXCEPT !.own = Marked(@, Remote.rev)] /\ UNCHANGED known
     \/ mem' = [mem EXCEPT !.own = Marked(@, op.exp)] /\ UNCHANGED known
  /\ UNCHANGED <<glass, conf, st, disk, op, world, faults, told, last>>

(* _sync_own: the file, its base and the manifest's entry decide. *)
Mine(own) == IF own.who = Me THEN own ELSE NoOwn
(* Fault: a change on both sides is taken for one of the file. *)
PlanUploads(own, local, ent) ==
  IF local = Absent THEN "down"
  ELSE IF local = ent.body THEN "base"
  ELSE IF own.st = "conflict" THEN "mark"
  ELSE IF local = own.base THEN "down" ELSE "put"
Plan(own, local, ent) ==
  IF local = Absent THEN "down"
  ELSE IF own.st = "conflict"
    THEN IF local = ent.body /\ ent.rev >= own.crev THEN "base" ELSE "mark"
  ELSE IF local = ent.body THEN "base"
  ELSE IF ~Based(own)
    THEN IF ent = [rev |-> 0, body |-> Empty] THEN "put" ELSE "conflict"
  ELSE IF local = own.base THEN "down"
  ELSE IF ent.body = own.base THEN "put" ELSE "conflict"
SyncOwn ==
  /\ pc = "own"
  /\ LET local == disk.own[Me]
         own == Mine(mem.own)
         plan == Plan(own, local, op.ent)
     IN /\ Goto(IF plan \in {"down", "put"} THEN plan ELSE AfterOwn)
        /\ op' = [op EXCEPT !.found = local, !.exp = op.ent.rev,
                            !.err = @ \/ plan \in {"mark", "conflict"}]
        /\ IF plan = "base" THEN Adopt(op.ent)
           ELSE /\ mem' = [mem EXCEPT !.own = CASE plan = "mark" -> Marked(own, op.ent.rev)
                                                [] plan = "conflict" -> [own EXCEPT !.st = "conflict"]
                                                [] OTHER -> own]
                /\ UNCHANGED known
  /\ UNCHANGED <<glass, conf, st, disk, world, faults, told, last>>
Download ==
  /\ pc = "down" /\ ~Denied /\ Remote = op.ent /\ Goto(AfterOwn)
  /\ disk' = [disk EXCEPT !.own[Me] = Remote.body]
  /\ Adopt(Remote)
  /\ UNCHANGED <<glass, conf, st, op, world, faults, told, last>>

-----------------------------------------------------------------------------
(* The team's context, with its manifest, and the peer's memory.  A 304 stands
   for the same context; TEAM.md is written when it does not match. *)
Context ==
  /\ pc = "ctx" /\ ~Denied /\ Goto("peers")
  /\ LET ctx == [who |-> op.cred, rev |-> glass.team, peer |-> glass.peer, own |-> Remote]
     IN /\ disk' = [disk EXCEPT !.team = Stamp(ctx)]
        /\ mem' = [mem EXCEPT !.ctx = ctx]
        /\ op' = [op EXCEPT !.ent = ctx.own]
  /\ UNCHANGED <<glass, conf, st, world, faults, told, last, known>>
ContextFails ==
  /\ pc = "ctx" /\ Goto("save") /\ op' = [op EXCEPT !.hid = FALSE]
  /\ UNCHANGED <<glass, conf, st, mem, disk, world, faults, told, last, known>>

PeerStep == pc = "peers" /\ Goto("own")
            /\ UNCHANGED <<glass, conf, st, world, told, last, known>>
Listed == mem.ctx.peer
PeerHere == /\ PeerStep /\ Listed \in {0, disk.peer}
            /\ mem' = IF Listed = 0 THEN mem ELSE [mem EXCEPT !.peer = Listed]
            /\ UNCHANGED <<disk, op, faults>>
PeerFetched == /\ PeerStep /\ Listed \notin {0, disk.peer} /\ ~Denied /\ glass.peer = Listed
               /\ disk' = [disk EXCEPT !.peer = Listed]
               /\ mem' = [mem EXCEPT !.peer = Listed]
               /\ UNCHANGED <<op, faults>>
(* Without the listed version a file stays only if it matches its old record. *)
PeerMissed ==
  /\ PeerStep /\ Listed \notin {0, disk.peer} /\ UNCHANGED faults
  /\ IF mem.peer # 0 /\ disk.peer = mem.peer
       THEN op' = [op EXCEPT !.err = TRUE] /\ UNCHANGED <<mem, disk>>
       ELSE /\ disk' = [disk EXCEPT !.block = @ \/ disk.peer # 0, !.peer = 0]
            /\ mem' = [mem EXCEPT !.peer = 0]
            /\ op' = [op EXCEPT !.err = TRUE, !.hid = @ \/ disk.peer # 0]
(* An unverified file that cannot be hidden ends the pass. *)
PeerStuck(bad) ==
  /\ pc = "peers" /\ Goto("save") /\ Listed \notin {0, disk.peer}
  /\ disk.peer # 0 /\ disk.peer # mem.peer
  /\ Failing(bad, HideFaults) /\ bad # {}
  /\ disk' = HiddenDisk([mem EXCEPT !.peer = Listed], disk, bad)
  /\ mem' = HiddenState([mem EXCEPT !.peer = Listed], disk, bad)
  /\ op' = [op EXCEPT !.hid = FALSE]
  /\ UNCHANGED <<glass, conf, st, world, told, last, known>>

(* _prune_stale_peers and the result of _reconcile_locked. *)
Finish(bad) ==
  /\ pc = "fin" /\ Goto("save") /\ Failing(bad, {"prune"})
  /\ LET stale == Listed = 0 /\ mem.peer # 0
         gone == stale /\ bad = {}
     IN /\ (bad # {} => stale)
        /\ disk' = IF gone THEN [disk EXCEPT !.block = @ \/ disk.peer # 0, !.peer = 0] ELSE disk
        /\ mem' = IF gone THEN [mem EXCEPT !.peer = 0] ELSE mem
        /\ op' = [op EXCEPT !.good = TRUE, !.hid = @ \/ (gone /\ disk.peer # 0)]
  /\ UNCHANGED <<glass, conf, st, world, told, last, known>>

-----------------------------------------------------------------------------
(* _save_state; then the block goes, if TEAM.md is the one verified. *)
Released == pc' = "idle" /\ mem' = st' /\ op' = NoOp
            /\ UNCHANGED <<glass, conf, world, told, last, known>>
Verified == mem.valid /\ mem.ctx.who = mem.id /\ disk.team = Stamp(mem.ctx)
Save == /\ pc = "save" /\ st' = mem /\ Released /\ UNCHANGED faults
        /\ disk' = IF op.good /\ Verified THEN [disk EXCEPT !.block = FALSE] ELSE disk
(* The save fails: what it should have recorded is undone or hidden. *)
Moved == op.was.id # mem.id \/ op.was.valid # mem.valid
(* Fault: only a removed peer file counts. *)
FailClosedPeer == op.hid
FailClosed == op.hid \/ Moved \/ (op.was.ctx /\ mem.ctx = NoCtx)
SaveFails(bad) ==
  /\ pc = "save" /\ st' = st /\ Released
  /\ Spend(1 + Cardinality(bad)) /\ bad \subseteq {"block", "team"}
  /\ disk' = IF op.kind = "update" THEN disk
             ELSE [disk EXCEPT
               !.block = @ \/ (op.hid /\ "block" \notin bad),
               !.peer = IF mem.peer # 0 /\ (Moved \/ op.was.peer = 0) THEN 0 ELSE @,
               !.team = IF "team" \in bad THEN @ ELSE IF FailClosed THEN Placeholder ELSE op.was.team]
Crash == /\ pc # "idle" /\ Spend(1) /\ st' = st /\ disk' = disk /\ Released

-----------------------------------------------------------------------------
(* The world outside the lock. *)
World == Event /\ UNCHANGED <<st, mem, disk, op, pc, faults, told, last>>
TeamEdit(v) == /\ World /\ v # glass.peer
               /\ glass' = [glass EXCEPT !.team = @ + 1, !.peer = v]
               /\ UNCHANGED <<conf, known>>
RemoteEdit(w, b) ==
  /\ World /\ b # glass.own[w].body
  /\ glass' = [glass EXCEPT !.own[w] = [rev |-> @.rev + 1, body |-> b]]
  /\ known' = [known EXCEPT !.pub = @ \cup {<<w, b>>}]
  /\ UNCHANGED conf
Revoke(c) == /\ World /\ c \notin glass.denied
             /\ glass' = [glass EXCEPT !.denied = @ \cup {c}] /\ UNCHANGED <<conf, known>>
Rotate(c) == World /\ c # conf /\ conf' = c /\ UNCHANGED <<glass, known>>
(* The manager writes its own file without the lock; a write while an operation
   is under way is not counted as a draft (see the README). *)
EditFile(b) ==
  /\ Event /\ disk.own[Owner(conf)] # b
  /\ disk' = [disk EXCEPT !.own[Owner(conf)] = b]
  /\ last' = [last EXCEPT ![Owner(conf)] = IF pc = "idle" THEN b ELSE Absent]
  /\ UNCHANGED <<glass, conf, st, mem, op, pc, faults, told, known>>

TInit ==
  /\ glass = [team |-> 1, peer |-> 1, own |-> [w \in Silicons |-> NoCtx.own], denied |-> {}]
  /\ conf \in Creds
  /\ st = [id |-> NoCred, valid |-> TRUE, ctx |-> NoCtx, peer |-> 0, own |-> NoOwn]
  /\ mem = st
  /\ disk = [team |-> Placeholder, peer |-> 0, own |-> [w \in Silicons |-> Absent],
             block |-> FALSE, arch |-> {}]
  /\ op = NoOp /\ pc = "idle" /\ world = 0 /\ faults = 0
  /\ told = {} /\ last = [w \in Silicons |-> Absent]
  /\ known = [pub |-> Silicons \X {Empty}, seen |-> [w \in Silicons |-> {}]]
TNext ==
  \/ Reconcile \/ Tick \/ \E b \in Bodies, res \in BOOLEAN : Update(b, res)
  \/ \E bad \in SUBSET HideFaults :
       Scope(bad) \/ Identified(bad) \/ Refused(bad) \/ PeerStuck(bad) \/ Finish(bad) \/ SaveFails(bad)
  \/ Unarchived \/ Unidentified \/ Write \/ WriteFails \/ Fetch \/ OwnDown \/ Put \/ PutUnheard
  \/ PutRefused \/ Compare \/ SyncOwn \/ Download \/ Context \/ ContextFails
  \/ PeerHere \/ PeerFetched \/ PeerMissed \/ Save \/ Crash
  \/ \E v \in 0..2 : TeamEdit(v)
  \/ \E w \in Silicons, b \in Bodies : RemoteEdit(w, b)
  \/ \E c \in Creds : Revoke(c) \/ Rotate(c)
  \/ \E b \in Bodies : EditFile(b)
TSpec == TInit /\ [][TNext]_tvars

-----------------------------------------------------------------------------
(* Once an operation has learned that Glass refuses the configured credential,
   no reader of the prompt is shown the team's context, with up to two local
   failures on top: "Confirmed access ... changes fail closed immediately". *)
HiddenAfterDenial == pc = "idle" /\ conf \in told /\ faults <= 2 => ~Visible
(* The last draft saved for a silicon is in its file, in the private archive, or
   Glass has had it, whatever is reconciled, transferred or denied meanwhile. *)
Kept(w) == <<w, last[w]>> \in disk.arch \cup known.pub
DraftsKept == \A w \in Silicons : last[w] # Absent => disk.own[w] = last[w] \/ Kept(w)
(* A PUT replaces nothing the silicon has not had in its own file, unless Glass
   had nothing or the manager asked to resolve the conflict. *)
UploadOverSeen ==
  \A w \in Silicons : glass'.own[w] # glass.own[w] /\ pc' # pc =>
    op.res \/ glass.own[w].body \in known.seen[w] \cup {Empty}
UploadsOverSeen == [][UploadOverSeen]_tvars

-----------------------------------------------------------------------------
(* The inductive invariant: the types, *)
AnyCred == Creds \cup {NoCred}
Files == Nat \cup {Absent}
Stamps == AnyCred \X Nat
Entries == [rev : Nat, body : Nat]
OwnRecords == [who : Silicons \cup {"none"}, base : Files, brev : Nat,
               st : {"none", "synced", "pending", "conflict"}, crev : Int]
States == [id : AnyCred, valid : BOOLEAN, peer : Nat, own : OwnRecords,
           ctx : [who : AnyCred, rev : Nat, peer : Nat, own : Entries]]
Disks == [team : Stamps, peer : Nat, own : [Silicons -> Files], block : BOOLEAN,
          arch : SUBSET (Silicons \X Files)]
Ops == [kind : {"none", "sync", "update"}, body : Files, res : BOOLEAN, full : BOOLEAN,
        cred : AnyCred, ent : Entries, found : Files, exp : Nat, err : BOOLEAN,
        good : BOOLEAN, hid : BOOLEAN,
        was : [id : AnyCred, valid : BOOLEAN, peer : Nat, ctx : BOOLEAN, team : Stamps]]
Services == [team : Nat, peer : Nat, own : [Silicons -> Entries], denied : SUBSET Creds]
Histories == [pub : SUBSET (Silicons \X Files), seen : [Silicons -> SUBSET Nat]]
TTypeOK ==
  /\ glass \in Services
  /\ conf \in Creds /\ st \in States /\ mem \in States /\ disk \in Disks /\ op \in Ops
  /\ pc # "idle" => op.cred \in Creds
  /\ faults \in Nat /\ told \subseteq Creds /\ last \in [Silicons -> Files]
  /\ known \in Histories

(* the operation under way, *)
Known == {"write", "fetch", "put", "refused", "own", "down", "ctx", "peers", "fin"}
Whole == pc \in {"ctx", "peers", "fin"} \/ (pc \in Known /\ op.kind = "sync" /\ op.full)
Operating ==
  /\ pc \in Known => mem.id = op.cred
  /\ pc \in {"write", "fetch"} => op.kind = "update"
  /\ op.kind = "update" => op.body \in Nat
  /\ pc = "put" => Content \in Nat
  /\ Whole => op.cred \notin told
  /\ op.good => pc = "save" /\ mem.id = op.cred /\ op.cred \notin told
  /\ pc # "idle" => op.was.valid = st.valid
  /\ pc \notin {"idle", "scope"} /\ mem.valid => mem.id \in {op.cred, NoCred}
  /\ pc # "idle" /\ op.cred \in told /\ mem.valid /\ mem.id = op.cred =>
       st.valid /\ st.id = op.cred /\ mem.ctx = st.ctx

(* a TEAM.md t that a refused principal would still be shown, *)
Shown(t) == /\ ~disk.block /\ st.valid /\ st.ctx.who = st.id /\ st.id \in told
            /\ t = Stamp(st.ctx)
Dropped == pc = "save" /\ ~mem.valid
Hidden == /\ Shown(disk.team) => faults >= 3 \/ (faults = 2 /\ Dropped)
          /\ pc # "idle" /\ Shown(op.was.team) => faults >= 3 \/ Dropped

(* and what Glass has had of a memory. *)
Had(w, rev, body) == /\ <<w, body>> \in known.pub /\ rev <= glass.own[w].rev
                     /\ rev = glass.own[w].rev => body = glass.own[w].body
CtxHad(s) == s.ctx.who # NoCred => Had(Owner(s.ctx.who), s.ctx.own.rev, s.ctx.own.body)
BaseHad(s) == s.own.base # Absent =>
  /\ s.id # NoCred /\ s.own.who = Owner(s.id)
  /\ Had(s.own.who, s.own.brev, s.own.base) /\ s.own.base \in known.seen[s.own.who]
Replaces == /\ op.exp <= Remote.rev
            /\ op.exp = Remote.rev => Remote.body \in known.seen[Me] \cup {Empty}
Memories ==
  /\ \A w \in Silicons : <<w, glass.own[w].body>> \in known.pub
  /\ CtxHad(st) /\ CtxHad(mem) /\ BaseHad(st) /\ BaseHad(mem)
  /\ pc \in {"peers", "own"} => Had(Me, op.ent.rev, op.ent.body)
  /\ pc = "put" /\ ~op.res => Replaces
  /\ pc = "down" => last[Me] = Absent \/ Kept(Me)
TInv == TTypeOK /\ Operating /\ Hidden /\ Memories /\ DraftsKept
=============================================================================
