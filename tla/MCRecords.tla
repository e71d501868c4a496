------------------------------ MODULE MCRecords ------------------------------
(***************************************************************************)
(* The records that are read, awaited upon and written, in one run: the    *)
(* signed-in user's profile, the voice commands, the audit chain.  They do *)
(* not meet: every behaviour is one of a single record, chosen at the      *)
(* start.                                                                  *)
(***************************************************************************)
EXTENDS UserSession, VoiceCommand, CloudAudit, TLC

CONSTANTS u1, u2, p1, p2, p3, k1, k2, c1, c2, m1, m2, m3

RecordSymmetry ==
  Permutations(Users) \cup Permutations(Tokens) \cup Permutations(CloudCalls)

VARIABLE record

recordVars == <<record, userVars, voiceVars, auditVars>>

RecordsInit ==
  /\ record \in {"profile", "commands", "audit"}
  /\ UserInit /\ VoiceInit /\ AuditInit

RecordsNext ==
  /\ UNCHANGED record
  /\ \/ record = "profile" /\ UserNext /\ UNCHANGED <<voiceVars, auditVars>>
     \/ record = "commands" /\ VoiceNext /\ UNCHANGED <<userVars, auditVars>>
     \/ record = "audit" /\ AuditNext /\ UNCHANGED <<userVars, voiceVars>>

RecordsSpec == RecordsInit /\ [][RecordsNext]_recordVars

RecordsTypeOK == UserTypeOK /\ VoiceTypeOK /\ AuditTypeOK
=============================================================================
