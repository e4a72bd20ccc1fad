------------------------------- MODULE Packet -------------------------------
(***************************************************************************)
(* dontlie prove (dontlie/prove.py): verify the vault, export it into a    *)
(* staging directory, verify the export, and move the directory to where   *)
(* the packet shall be.  Receipts are appended and deleted meanwhile, and  *)
(* another build may have the same output directory.                       *)
(*                                                                         *)
(* Abstracted: no receipt is attested and no key revoked, so a vault       *)
(* verifies when its receipts are 1, 2, ... of one namespace               *)
(* (Vault!VerifyExact); the report, manifest and checksums of a packet are *)
(* functions of its bundle and of the receipt count.                       *)
(***************************************************************************)
EXTENDS Ledger, FiniteSets

CONSTANTS
  Builder,      \* processes that run dontlie prove
  Absent,       \* no output directory
  Empty         \* an empty one

VARIABLES
  outdir,       \* the output directory: Absent, Empty, or a packet
  build         \* the state of each build

packetVars == <<outdir, build>>

-----------------------------------------------------------------------------
NoBuild == [pc |-> "idle", count |-> 0, bundle |-> Absent]

PacketInit ==
  /\ outdir \in {Absent, Empty}
  /\ build = [b \in Builder |-> NoBuild]

BuildAt(b, pc) == build[b].pc = pc
BuildBecomes(b, state) == build' = [build EXCEPT ![b] = state]
IsPacket(dir) == dir # Absent /\ dir # Empty

\* The receipts of the vault, as verification and export read them.
Rows == UNION {{<<n, chain[n][k]>> : k \in DOMAIN chain[n]} : n \in Namespaces}

\* verify_receipts: one namespace and no gap.
Verified(rows) ==
  /\ \A r, s \in rows : r[1] = s[1]
  /\ {r[2] : r \in rows} = 1..Cardinality(rows)

BeginBuild(b) ==
  /\ BuildAt(b, "idle") /\ ~IsPacket(outdir)
  /\ BuildBecomes(b, [NoBuild EXCEPT !.pc = "verify"])
  /\ UNCHANGED outdir

VerifySource(b) ==
  /\ BuildAt(b, "verify")
  /\ BuildBecomes(b, IF Rows # {} /\ Verified(Rows)
                     THEN [build[b] EXCEPT !.pc = "export", !.count = Cardinality(Rows)]
                     ELSE NoBuild)
  /\ UNCHANGED outdir

\* Fault variant: the counts are compared, the bundle is not verified.
ExportUnverified(b) ==
  /\ BuildAt(b, "export")
  /\ BuildBecomes(b, IF Cardinality(Rows) = build[b].count
                     THEN [build[b] EXCEPT !.pc = "preflight", !.bundle = Rows]
                     ELSE NoBuild)
  /\ UNCHANGED outdir

\* export_bundle reads the vault again; the result stays in the staging
\* directory, where nobody else looks, and is verified there.
Export(b) ==
  /\ BuildAt(b, "export")
  /\ BuildBecomes(b, IF Cardinality(Rows) = build[b].count /\ Verified(Rows)
                     THEN [build[b] EXCEPT !.pc = "preflight", !.bundle = Rows]
                     ELSE NoBuild)
  /\ UNCHANGED outdir

\* The output directory must still be absent or empty.
PreflightAgain(b) ==
  /\ BuildAt(b, "preflight")
  /\ BuildBecomes(b, IF IsPacket(outdir) THEN NoBuild ELSE [build[b] EXCEPT !.pc = "exists"])
  /\ UNCHANGED outdir

\* output_dir.exists()
SeeOutdir(b) ==
  /\ BuildAt(b, "exists")
  /\ BuildBecomes(b, [build[b] EXCEPT !.pc = IF outdir = Absent THEN "replace" ELSE "rmdir"])
  /\ UNCHANGED outdir

\* Fault variant: shutil.rmtree(output_dir) instead of rmdir().
RemoveTree(b) ==
  /\ BuildAt(b, "rmdir")
  /\ outdir' = Absent
  /\ BuildBecomes(b, [build[b] EXCEPT !.pc = "replace"])

\* rmdir() raises unless the directory is there and empty.
RemoveOutdir(b) ==
  /\ BuildAt(b, "rmdir")
  /\ IF outdir = Empty
     THEN outdir' = Absent /\ BuildBecomes(b, [build[b] EXCEPT !.pc = "replace"])
     ELSE UNCHANGED outdir /\ BuildBecomes(b, NoBuild)

\* os.replace() raises if there is a directory that is not empty.
Publish(b) ==
  /\ BuildAt(b, "replace")
  /\ outdir' = IF IsPacket(outdir) THEN outdir
               ELSE [count |-> build[b].count, bundle |-> build[b].bundle]
  /\ BuildBecomes(b, NoBuild)

\* Any other exception, which removes the staging directory, or the death of
\* the process, which leaves it under its own name.
BuildFails(b) ==
  /\ ~BuildAt(b, "idle")
  /\ BuildBecomes(b, NoBuild)
  /\ UNCHANGED outdir

BuildStep(b) ==
  \/ BeginBuild(b) \/ VerifySource(b) \/ Export(b)
  \/ PreflightAgain(b) \/ SeeOutdir(b) \/ RemoveOutdir(b) \/ Publish(b)
  \/ BuildFails(b)

-----------------------------------------------------------------------------
(* Properties *)

\* A published packet contains the receipts 1 to receipt_count of one
\* namespace, whatever was appended or deleted between the verification of the
\* vault and the export: its manifest ("verified") is true of its bundle.
PacketHolds ==
  IsPacket(outdir) => outdir.count = Cardinality(outdir.bundle)
                      /\ Verified(outdir.bundle)

\* A packet that was published is never replaced or removed by another build.
PacketStays == [][IsPacket(outdir) => outdir' = outdir]_<<chain, issued, outdir, build>>
=============================================================================
