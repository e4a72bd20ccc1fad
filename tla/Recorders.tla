----------------------------- MODULE Recorders -----------------------------
(* The two ways into the vault, the proxy and passive capture.  They run in *)
(* different processes and meet nowhere but in the vault, whose concurrency *)
(* is the subject of Vault: here one of them is at work at a time.          *)
EXTENDS Proxy, Capture

recordersVars == <<vars, captureVars>>

RecordersInit == Init /\ CaptureInit

RecordersNext ==
  \/ ProxyNext /\ layers = 0 /\ (\A t \in Thread : Is(t, "new")) /\ UNCHANGED captureVars
  \/ CaptureNext /\ (\A c \in Call : At(c, "new")) /\ UNCHANGED vars

\* Threads of the proxy as in ProxySpec; a host thread that records goes on.
RecordersSpec ==
  /\ RecordersInit /\ [][RecordersNext]_recordersVars
  /\ \A c \in Call : WF_recordersVars(Handle(c) /\ UNCHANGED captureVars)
  /\ \A t \in Thread : WF_recordersVars(RecordStep(t) /\ UNCHANGED vars)

=============================================================================
