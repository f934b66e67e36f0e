------------------------------ MODULE SmpSchemas ------------------------------
(***************************************************************************)
(* The schemas of the SMP messages (smp_schemas.py).  A message is a       *)
(* record of the fields that another field, or the code that forwards the  *)
(* message, depends on.  The field rest_ok tells whether all the others    *)
(* are present and within their limits, the body's own type included.      *)
(***************************************************************************)
EXTENDS Subnets

ROOT_CREDITOR_ID == 0

IN_MESSAGE_TYPES == {"ConfigureAccount", "PrepareTransfer", "FinalizeTransfer"}
OUT_MESSAGE_TYPES ==
    {"RejectedConfig", "RejectedTransfer", "PreparedTransfer", "FinalizedTransfer",
     "AccountUpdate", "AccountPurge", "AccountTransfer"}

ValidateMixin(m) ==
    m.rest_ok /\ m.debtor_id \in Int64 /\ m.creditor_id \in Int64

ValidateCoordinatorFieldsMixin(m) ==
    ValidateMixin(m) /\ m.coordinator_id \in Int64

ConfigureAccount(m) == ValidateMixin(m)

RejectedConfig(m) == ValidateMixin(m)

PrepareTransfer(m) ==
    /\ ValidateCoordinatorFieldsMixin(m)
    /\ 0 <= m.min_locked_amount /\ m.min_locked_amount <= m.max_locked_amount
    /\ m.coordinator_type = "direct" => m.coordinator_id = m.creditor_id
    /\ m.coordinator_type = "issuing" =>
          m.coordinator_id = m.debtor_id /\ m.creditor_id = ROOT_CREDITOR_ID

FinalizeTransfer(m) == ValidateCoordinatorFieldsMixin(m)

RejectedTransfer(m) ==
    ValidateCoordinatorFieldsMixin(m) /\ m.status_code # "OK"

PreparedTransfer(m) == ValidateCoordinatorFieldsMixin(m)

FinalizedTransfer(m) ==
    /\ ValidateCoordinatorFieldsMixin(m)
    /\ m.status_code # "OK" => m.committed_amount = 0

AccountUpdate(m) == ValidateMixin(m)

AccountPurge(m) == ValidateMixin(m)

AccountTransfer(m) ==
    /\ ValidateMixin(m)
    /\ m.acquired_amount # 0
    /\ m.previous_transfer_number < m.transfer_number

\* JSON_SCHEMAS[m.type].loads
Loads(m) ==
    CASE m.type = "ConfigureAccount"  -> ConfigureAccount(m)
      [] m.type = "RejectedConfig"    -> RejectedConfig(m)
      [] m.type = "PrepareTransfer"   -> PrepareTransfer(m)
      [] m.type = "FinalizeTransfer"  -> FinalizeTransfer(m)
      [] m.type = "RejectedTransfer"  -> RejectedTransfer(m)
      [] m.type = "PreparedTransfer"  -> PreparedTransfer(m)
      [] m.type = "FinalizedTransfer" -> FinalizedTransfer(m)
      [] m.type = "AccountUpdate"     -> AccountUpdate(m)
      [] m.type = "AccountPurge"      -> AccountPurge(m)
      [] m.type = "AccountTransfer"   -> AccountTransfer(m)
      [] OTHER                        -> FALSE

=============================================================================
