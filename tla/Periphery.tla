----------------------------- MODULE Periphery -----------------------------
(***************************************************************************)
(* The parts around the vault that have no file, process or memory in      *)
(* common with each other: what witnesses, backups, settings and public    *)
(* attestations keep, what is made of receipts for others, what clients    *)
(* do around a call, and how texts are read and cleaned.  In a behaviour   *)
(* one of them is at work; those that read the vault have somebody append  *)
(* to it and delete from it meanwhile.                                     *)
(***************************************************************************)
EXTENDS Witness, Backup, Sealing, Settings, Reputation,
        Anchors, Timestamp, Sidecar, Statements, PeerWitness, Cbor,
        AgentProxy, Callback, Integration, Importer, Sse, Adapters, Redaction

VARIABLE part   \* the part that is at work

VaultReaders == {"witness", "backup", "reputation", "sidecar"}
OtherParts ==
  {"sealing", "settings", "anchors", "timestamp", "statements", "peer", "route", "cbor",
   "agent", "callback", "integration", "importer", "sse", "adapters", "redaction"}

peripheryVars ==
  <<part, chain, issued, written, witnessVars, backupVars, sealingVars, settingsVars,
    reputationVars, anchorsVars, timestampVars, sidecarVars, statementsVars, peerVars, cborVars,
    agentVars, callbackVars, integrationVars, importerVars, sseVars, adaptersVars, redactionVars>>

-----------------------------------------------------------------------------
\* What a part may begin with is fixed while it is not at work.
PeripheryInit ==
  /\ part \in VaultReaders \cup OtherParts
  /\ part # "settings"    => kind = "policy"
  /\ part # "reputation"  => ownKey = CHOOSE k \in RepKey : TRUE
  /\ part # "timestamp"   => pins = LoadEnvPins(NoValue, [t \in Tsa |-> {}])
  /\ part # "integration" => failureMode = "raise"
  /\ part # "importer"    => export = CHOOSE e \in Exports : TRUE
  /\ part # "sse"         => stream = <<>>
  /\ part # "cbor"        => sample = CHOOSE v \in Samples : TRUE
  /\ part # "redaction"   => found = Unmatched
  /\ part # "adapters"    => asked = (CHOOSE r \in OpenAIRequests : TRUE) /\ default = NoParam
  /\ LedgerInit /\ WrittenInit
  /\ WitnessInit /\ BackupInit /\ SealingInit /\ SettingsInit /\ ReputationInit
  /\ AnchorsInit /\ TimestampInit /\ SidecarInit /\ StatementsInit /\ PeerInit /\ CborInit
  /\ AgentInit /\ CallbackInit /\ IntegrationInit /\ ImporterInit
  /\ SseInit /\ AdaptersInit /\ RedactionInit

PartStep ==
  \/ part = "witness" /\ WitnessNext
  \/ part = "backup" /\ BackupNext
  \/ part = "sealing" /\ SealingNext
  \/ part = "settings" /\ SettingsNext
  \/ part = "reputation" /\ ReputationNext
  \/ part = "anchors" /\ AnchorsNext
  \/ part = "timestamp" /\ TimestampNext
  \/ part = "sidecar" /\ SidecarNext
  \/ part = "statements" /\ StatementsNext
  \/ part = "peer" /\ PeerNext
  \/ part = "route" /\ RouteNext
  \/ part = "cbor" /\ CborNext
  \/ part = "agent" /\ AgentNext
  \/ part = "callback" /\ CallbackNext
  \/ part = "integration" /\ IntegrationNext
  \/ part = "importer" /\ ImporterNext
  \/ part = "sse" /\ SseNext
  \/ part = "adapters" /\ AdaptersNext
  \/ part = "redaction" /\ RedactionNext

OthersRest ==
  /\ part # "witness"     => UNCHANGED witnessVars
  /\ part # "backup"      => UNCHANGED backupVars
  /\ part # "sealing"     => UNCHANGED sealingVars
  /\ part # "settings"    => UNCHANGED settingsVars
  /\ part # "reputation"  => UNCHANGED reputationVars
  /\ part # "anchors"     => UNCHANGED anchorsVars
  /\ part # "timestamp"   => UNCHANGED timestampVars
  /\ part # "sidecar"     => UNCHANGED sidecarVars
  /\ part # "statements"  => UNCHANGED statementsVars
  /\ part \notin {"peer", "route"} => UNCHANGED peerVars
  /\ part # "cbor"        => UNCHANGED cborVars
  /\ part # "agent"       => UNCHANGED agentVars
  /\ part # "callback"    => UNCHANGED callbackVars
  /\ part # "integration" => UNCHANGED integrationVars
  /\ part # "importer"    => UNCHANGED importerVars
  /\ part \notin {"callback", "integration", "importer"} => UNCHANGED written
  /\ part # "sse"         => UNCHANGED sseVars
  /\ part # "adapters"    => UNCHANGED adaptersVars
  /\ part # "redaction"   => UNCHANGED redactionVars

PeripheryNext ==
  /\ UNCHANGED part
  /\ \/ PartStep /\ OthersRest /\ UNCHANGED <<chain, issued>>
     \/ /\ part \in VaultReaders /\ LedgerNext
        /\ UNCHANGED <<written, witnessVars, backupVars, sealingVars, settingsVars,
                       reputationVars, anchorsVars, timestampVars, sidecarVars, statementsVars,
                       peerVars, cborVars, agentVars, callbackVars, integrationVars,
                       importerVars, sseVars, adaptersVars, redactionVars>>

PeripherySpec == PeripheryInit /\ [][PeripheryNext]_peripheryVars

-----------------------------------------------------------------------------
(* Properties of several parts that promise the same to their users *)

\* A copy of the vault, saved or unsealed, is a whole vault that once was.
CopiesWhole == SnapshotWhole /\ SealedReturns

\* Whatever makes receipts outside the proxy (a LangChain callback, the
\* functions a program decorates, an import) makes those its calls were, and
\* tells its host the truth about them.
RecordsMatchCalls == PromptsMatch /\ HostKnows /\ ImportReport

\* What proves the age of something, a timestamp, a manifest of checkpoints or
\* a proof beside a receipt, is of that very thing.
AnchorsHold == TimestampHolds /\ ManifestAgrees /\ SidecarsMatch

\* What is handed out of the vault by itself, a link, a bundle of envelopes or
\* a witness's word, verifies as what it was signed to be and as nothing else.
StatementsHold == LinksHold /\ BundleHolds /\ PeersHold

\* What is read back is what was written: a stream however it is cut, a
\* request in whichever provider's form, a value from the bytes of its encoding.
ReadAlike == ChunksInvisible /\ ConversionKeeps /\ EncodingExact
=============================================================================
