----------------------------- MODULE KeyRotation -----------------------------
(* Rotation of the silicon's API key (update.py): a candidate is staged in the
   environment file, offered to Glass, proved to authenticate, written to
   .glass.json and then cleared, with older copies of the key scrubbed on the way.
   _auth_key_lock admits one rotation at a time; a crash or a failed request ends
   it anywhere.  Redirects and malformed files, refused before any change, are
   left out; so is a request that Glass carries out after the client gave it up
   (see the README). *)
EXTENDS Naturals, Sequences

CONSTANT MaxKeys    \* keys ever minted
KAssumption == MaxKeys \in Nat \ {0, 1}

VARIABLES
  active,   \* the key Glass accepts
  stores,   \* the key in each place a key may be, 0: none
  pend,     \* GLASS key staged in the environment file
  minted,
  rpc,      \* where the rotation is
  cur,      \* the key it took for the current one
  after     \* the candidate has been offered by this rotation
kvars == <<active, stores, pend, minted, rpc, cur, after>>

None == 0
(* _configured_auth_pair: .glass.json goes before the older places. *)
Places == <<"glass", "silicon", "dotenv", "envpy">>
Legacy == <<"silicon", "dotenv", "envpy">>
Configured ==
  LET with == {i \in DOMAIN Places : stores[Places[i]] # None}
  IN IF with = {} THEN None
     ELSE stores[Places[CHOOSE i \in with : \A j \in with : i <= j]]

Move(p) == rpc' = p
(* _rotate_auth_key_locked: what an earlier rotation staged comes first. *)
Rotate ==
  /\ rpc = "idle" /\ cur' = Configured /\ after' = FALSE
  /\ Move(IF pend # None THEN "probe" ELSE IF Configured = None THEN "idle" ELSE "stage")
  /\ UNCHANGED <<active, stores, pend, minted>>
Stage ==
  /\ rpc = "stage" /\ minted < MaxKeys /\ minted' = minted + 1
  /\ pend' = minted + 1 /\ Move("post")
  /\ UNCHANGED <<active, stores, cur, after>>
(* Whatever Glass answers, or does not, the candidate is probed. *)
Post ==
  /\ rpc = "post" /\ Move("probe") /\ after' = TRUE
  /\ \/ active = cur /\ active' = pend
     \/ UNCHANGED active
  /\ UNCHANGED <<stores, pend, minted, cur>>

(* _recover_pending_auth_key *)
(* Fault: an installed candidate is taken off the journal before it is stored. *)
InstalledCleared == "clear"
Installed == "persist"
Probe ==
  /\ rpc = "probe"
  /\ Move(IF active = pend THEN Installed ELSE IF cur # None THEN "probe_current" ELSE "idle")
  /\ UNCHANGED <<active, stores, pend, minted, cur, after>>
(* The staged key is dropped only on proof that the current one works. *)
ProbeCurrent ==
  /\ rpc = "probe_current"
  /\ IF active = cur THEN pend' = None /\ Move(IF after THEN "idle" ELSE "stage")
     ELSE UNCHANGED pend /\ Move("idle")
  /\ UNCHANGED <<active, stores, minted, cur, after>>
(* _persist_auth_key: the canonical place, then each older one. *)
Persist ==
  /\ rpc = "persist" /\ Move("scrub")
  /\ stores' = [stores EXCEPT !.glass = pend]
  /\ UNCHANGED <<active, pend, minted, cur, after>>
Scrub ==
  /\ rpc = "scrub"
  /\ LET left == {i \in DOMAIN Legacy : stores[Legacy[i]] # None}
     IN IF left = {} THEN Move("clear") /\ UNCHANGED stores
        ELSE LET i == CHOOSE i \in left : \A j \in left : i <= j
             IN stores' = [stores EXCEPT ![Legacy[i]] = None] /\ UNCHANGED rpc
  /\ UNCHANGED <<active, pend, minted, cur, after>>
Clear ==
  /\ rpc = "clear" /\ pend' = None /\ Move("idle")
  /\ UNCHANGED <<active, stores, minted, cur, after>>

(* A request or a write fails, or the process ends. *)
Abort == rpc # "idle" /\ Move("idle") /\ UNCHANGED <<active, stores, pend, minted, cur, after>>
(* The owner provisions a new key in .glass.json. *)
Reprovision ==
  /\ rpc = "idle" /\ minted < MaxKeys /\ minted' = minted + 1
  /\ active' = minted + 1 /\ stores' = [stores EXCEPT !.glass = minted + 1]
  /\ UNCHANGED <<pend, rpc, cur, after>>

KInit ==
  /\ active = 1 /\ pend = None /\ minted = 1 /\ rpc = "idle" /\ cur = None /\ after = FALSE
  /\ stores \in [{"glass", "silicon", "dotenv", "envpy"} -> {None, 1}] /\ Configured = 1
KNext == Rotate \/ Stage \/ Post \/ Probe \/ ProbeCurrent \/ Persist \/ Scrub \/ Clear
         \/ Abort \/ Reprovision
KSpec == KInit /\ [][KNext]_kvars

-----------------------------------------------------------------------------
(* However a rotation is cut off, the key Glass accepts is the configured one or
   the staged one, so that a later recovery can find it. *)
KeyKept == active \in {Configured, pend}

(* What makes it inductive.  The key taken for the current one stays the configured
   one until the candidate is stored; a candidate is stored and then taken off the
   journal only once Glass has been seen to accept it. *)
KTypeOK ==
  /\ active \in Nat \ {None} /\ minted \in Nat \ {None} /\ pend \in Nat /\ cur \in Nat
  /\ stores \in [{"glass", "silicon", "dotenv", "envpy"} -> Nat] /\ after \in BOOLEAN
  /\ rpc \in {"idle", "stage", "post", "probe", "probe_current", "persist", "scrub", "clear"}
CurrentIsConfigured ==
  /\ rpc \in {"stage", "post", "probe", "probe_current"} => cur = Configured
  /\ rpc \in {"post", "probe", "probe_current"} => pend # None
  /\ rpc = "stage" => active = cur
CandidateProved ==
  /\ rpc \in {"persist", "scrub", "clear"} => active = pend
  /\ rpc \in {"scrub", "clear"} => stores["glass"] = active
KInv == KTypeOK /\ KeyKept /\ CurrentIsConfigured /\ CandidateProved
=============================================================================
