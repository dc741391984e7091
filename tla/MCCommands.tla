----------------------------- MODULE MCCommands -----------------------------
(***************************************************************************)
(* The commands that change the system and keep files about it: the power  *)
(* scheme's, two at once; those behind the cooldown, two at once; and the  *)
(* compaction of the audit log beside commands that append to it.  They    *)
(* share no file, so a behaviour is one of one part.  Commands and schemes *)
(* are interchangeable: the specifications compare them for equality only. *)
(***************************************************************************)
EXTENDS PowerScheme, GatedActions, AuditFile, TLC

CONSTANTS c1, c2, s1, s2

VARIABLE part

partsVars == <<part, vars, gatedVars, auditVars>>

PartsInit ==
    /\ part \in {"scheme", "gated", "audit"}
    /\ Init
    /\ GatedInit
    /\ AuditInit

PartsNext ==
    \/ part = "scheme" /\ Next /\ UNCHANGED <<part, gatedVars, auditVars>>
    \/ part = "gated" /\ GatedNext /\ UNCHANGED <<part, vars, auditVars>>
    \/ part = "audit" /\ AuditNext /\ UNCHANGED <<part, vars, gatedVars>>

PartsSpec == PartsInit /\ [][PartsNext]_partsVars

\* Types of the files, the clock and the commands.
PartsTypeOK ==
    CASE part = "scheme" -> TypeOK
      [] part = "gated" -> GatedTypeOK
      [] part = "audit" -> AuditTypeOK

Symmetry == Permutations({c1, c2}) \cup Permutations(Schemes)
=============================================================================
