------------------------------ MODULE TestFlow ------------------------------
(***************************************************************************)
(* The end-to-end script (scripts/test-flow.ts, with scripts/proof.ts)     *)
(* beside the watcher: it attests on the remote chain, subscribes on the   *)
(* hub, waits, proves what it attested and reads the callback's events.    *)
(* It signs with an account                                                *)
(* of its own. The watcher may serve the subscription before the script    *)
(* does.                                                                   *)
(*                                                                         *)
(* flow.pc names the call the script waits for. Any error ends it: main is *)
(* given up, and what was sent by then is not taken back.                  *)
(***************************************************************************)
EXTENDS Watcher

CONSTANTS
    Owner,             \* the account of MNEMONIC_HUB and MNEMONIC_NEUTRON
    AttestationFlag,   \* --attestation-id
    ClientFlag         \* --client-id

ASSUME FlowAssumption ==
    /\ AttestationFlag \in AttestationIds
    /\ NothingEmpty(StoredValues(Attesters \cup {Owner}, AttestationTexts \cup {"approved"}))

VARIABLE flow

flow_vars == << flow >>

Ended == {"complete", "refused", "failed"}

NotStarted ==
    [pc |-> "attest", id |-> None, block |-> None, found |-> None,
     attempts |-> 0, msg |-> None, pending |-> FALSE, events |-> << >>]

\* A call of the script returns or fails: nothing else changes.
FlowGoes(f) ==
    /\ flow' = f
    /\ UNCHANGED << remote_vars, hub_vars, server_vars, faults >>

FlowAt(pc) == flow.pc = pc

-----------------------------------------------------------------------------
\* Step 1: the transaction is in the block being executed ...
WriteAttestation ==
    /\ FlowAt("attest")
    /\ Attest(Owner, AttestationFlag, "approved")
    /\ flow' = [flow EXCEPT !.pc = "attested", !.block = Executed + 1]
    /\ UNCHANGED << hub_vars, server_vars, faults >>

\* ... and is found once that block has been executed.
AttestationFound ==
    /\ FlowAt("attested")
    /\ Executed >= flow.block
    /\ FlowGoes([flow EXCEPT !.pc = "subscribe"])

FlowSubscribeMsg ==
    [client_id |-> ClientFlag, key_path |-> << "wasm" >>,
     watch_key |-> AttestationFlag, condition |-> JsonPathEquals("status", "approved"),
     callback_contract |-> ProofCallback, expires_after_blocks |-> None]

\* Step 2: the identifier is taken from the events of the transaction.
CreateSubscription ==
    /\ FlowAt("subscribe")
    /\ LET r == execute_subscribe(kv, Owner, FlowSubscribeMsg, height)
       IN  /\ r.res = "Ok"
           /\ kv' = r.kv
    /\ flow' = [flow EXCEPT !.pc = "wait", !.id = kv.next_id]
    /\ UNCHANGED << remote_vars, height, sequence, mempool, landed, server_vars, faults >>

\* Ten seconds, in which the chains and the watcher may do anything.
Waited == FlowAt("wait") /\ FlowGoes([flow EXCEPT !.pc = "state"])

\* Step 3. fetchStateWithProof throws when there is no value.
FlowFetchState ==
    /\ FlowAt("state")
    /\ LET found == fetchStateWithProof(AttestationFlag)
       IN  FlowGoes(IF found # None THEN [flow EXCEPT !.pc = "hash", !.found = found]
                    ELSE [flow EXCEPT !.pc = "failed"])

\* encodeProofForContract: the header of the next block, asked for a few times.
FlowFetchAppHash ==
    LET header == AppHashHeader(flow.found.height)
    IN  /\ FlowAt("hash")
        /\ FlowGoes(
            IF HasHeader(header)
            THEN [flow EXCEPT !.pc = "simulate",
                              !.msg = SubmitProofMsg(flow.found, HeaderAppHash(header))]
            ELSE IF flow.attempts + 1 < MaxAttempts
            THEN [flow EXCEPT !.attempts = @ + 1]
            ELSE [flow EXCEPT !.pc = "failed"])

\* execute(..., "auto"): the simulation, and then the broadcast.
FlowSimulate ==
    /\ FlowAt("simulate")
    /\ FlowGoes(IF SubmitProof(kv, flow.id, flow.msg, height).res = "Ok"
                THEN [flow EXCEPT !.pc = "await", !.pending = TRUE]
                ELSE [flow EXCEPT !.pc = "refused"])

\* The script goes on whatever became of its transaction.
AfterInclusion_Unchecked(res) == IF FlowAt("await") THEN "query" ELSE flow.pc

\* execute throws when the transaction was refused in its block.
AfterInclusion(res) ==
    IF FlowAt("await") THEN IF res = "Ok" THEN "query" ELSE "refused" ELSE flow.pc

\* The hub takes the script's transaction into a block, the script waiting or not.
IncludeFlow ==
    /\ flow.pending
    /\ LET r == SubmitProof(kv, flow.id, flow.msg, height)
       IN  /\ kv' = r.kv
           /\ flow' = [flow EXCEPT !.pending = FALSE, !.pc = AfterInclusion(r.res)]
    /\ UNCHANGED << remote_vars, height, sequence, mempool, landed, server_vars, faults >>

\* Step 4: the events of proof-callback are read, and the script ends.
QueryCallbackEvents ==
    /\ FlowAt("query")
    /\ FlowGoes([flow EXCEPT !.pc = "complete", !.events = kv.events])

\* A call fails, or has not returned after a minute: a fatal error.
FlowTimesOut == FlowAt("attested") \/ FlowAt("await")

FlowFails ==
    /\ IF FlowTimesOut THEN UNCHANGED faults ELSE Faulty
    /\ flow.pc \notin {"attest"} \cup Ended
    /\ flow' = [flow EXCEPT !.pc = "failed"]
    /\ UNCHANGED << remote_vars, hub_vars, server_vars >>

-----------------------------------------------------------------------------
FlowInit == flow = NotStarted

FlowNext ==
    \/ WriteAttestation \/ AttestationFound \/ CreateSubscription \/ Waited
    \/ FlowFetchState \/ FlowFetchAppHash \/ FlowSimulate \/ IncludeFlow
    \/ QueryCallbackEvents \/ FlowFails

-----------------------------------------------------------------------------
(***************************************************************************)
(* Properties                                                              *)
(***************************************************************************)

\* "Test Flow Complete!" means what the reader takes it for: the events read last
\* have exactly one for the script's subscription, with the value it proved, it
\* was the script's own transaction that caused it and none of the watcher's,
\* though both were after the same subscription.
CompleteMeansRecorded ==
    FlowAt("complete") =>
        /\ \E i \in DOMAIN flow.events :
              /\ {j \in DOMAIN flow.events :
                    flow.events[j].caller = Self /\ flow.events[j].subscription_id = flow.id} = {i}
              /\ flow.events[i].proven_value = from_utf8_lossy(flow.msg.value)
        /\ \A x \in landed : x.id = flow.id => x.res # "Ok"

\* A script whose proof is refused, in the simulation or in its block, though
\* the value it found is the one it attested, has been overtaken: by then the
\* callback has had the event once, from the watcher or from another request.
RefusedMeansServed ==
    FlowAt("refused") =>
        LET sub == kv.subs[flow.id]
        IN  EvaluateCondition(sub.condition, flow.found.value) = "Ok" =>
                sub.status = "Triggered" /\ Cardinality(DeliveredFor(kv, flow.id)) = 1

=============================================================================
