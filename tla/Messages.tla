------------------------------- MODULE Messages -------------------------------
(***************************************************************************)
(* The messages of seata.proto as their generated code reads and writes    *)
(* them (apis/seata.pb.go).  The fields of every message are numbered from *)
(* 1 without a gap, so a message type is the sequence of their kinds.      *)
(***************************************************************************)
EXTENDS Integers, Sequences

\* the enumerations: their numbers
ResultCode == 0 .. 1
ExceptionCode == 0 .. 18
BranchMessageType == 0 .. 3
GlobalStatus == 0 .. 15
BranchType == 0 .. 3
BranchStatus == 0 .. 10

\* kinds of fields; Embedded is a message within a message
Bytes == "bytes"
Int64 == "int64"
Int32 == "int32"
Bool == "bool"
Embedded == "any"

GlobalSession == <<Bytes, Bytes, Int64, Bytes, Int32, Int64, "GlobalStatus", Bool>>
BranchSession ==
  <<Bytes, Bytes, Int64, Int64, Bytes, Bytes, "BranchType", "BranchStatus", Bytes, Bool>>
RowLock == <<Bytes, Int64, Int64, Bytes, Bytes, Bytes, Bytes>>
GlobalBeginRequest == <<Bytes, Int32, Bytes>>
GlobalBeginResponse == <<"ResultCode", "ExceptionCode", Bytes, Bytes>>
BranchRegisterRequest == <<Bytes, Bytes, Bytes, Bytes, "BranchType", Bytes, Bool>>
BranchRegisterResponse == <<"ResultCode", "ExceptionCode", Bytes, Int64>>
BranchReportRequest == <<Bytes, Int64, Bytes, "BranchType", "BranchStatus", Bytes>>
BranchReportResponse == <<"ResultCode", "ExceptionCode", Bytes>>
GlobalLockQueryRequest == <<Bytes, Bytes, Bytes, "BranchType">>
GlobalLockQueryResponse == <<"ResultCode", "ExceptionCode", Bytes, Bool>>
GlobalStatusRequest == <<Bytes>>
GlobalStatusResponse == <<"ResultCode", "ExceptionCode", Bytes, "GlobalStatus">>
GlobalCommitRequest == <<Bytes>>
GlobalCommitResponse == <<"ResultCode", "ExceptionCode", Bytes, "GlobalStatus">>
GlobalRollbackRequest == <<Bytes>>
GlobalRollbackResponse == <<"ResultCode", "ExceptionCode", Bytes, "GlobalStatus">>
GlobalReportRequest == <<Bytes, "GlobalStatus">>
GlobalReportResponse == <<"ResultCode", "ExceptionCode", Bytes, "GlobalStatus">>
BranchCommitRequest == <<Bytes, Int64, Bytes, Bytes, "BranchType", Bytes>>
BranchCommitResponse == <<"ResultCode", "ExceptionCode", Bytes, Bytes, Int64, "BranchStatus">>
BranchRollbackRequest == <<Bytes, Int64, Bytes, Bytes, "BranchType", Bytes>>
BranchRollbackResponse == <<"ResultCode", "ExceptionCode", Bytes, Bytes, Int64, "BranchStatus">>
BranchMessage == <<Int64, "BranchMessageType", Embedded>>

MessageTypes ==
  {GlobalSession, BranchSession, RowLock, GlobalBeginRequest, GlobalBeginResponse,
   BranchRegisterRequest, BranchRegisterResponse, BranchReportRequest, BranchReportResponse,
   GlobalLockQueryRequest, GlobalLockQueryResponse, GlobalStatusRequest, GlobalStatusResponse,
   GlobalCommitRequest, GlobalCommitResponse, GlobalRollbackRequest, GlobalRollbackResponse,
   GlobalReportRequest, GlobalReportResponse, BranchCommitRequest, BranchCommitResponse,
   BranchRollbackRequest, BranchRollbackResponse, BranchMessage}

\* the numbers of an enumeration; unknown ones are kept by the decoder
EnumOf(kind) ==
  CASE kind = "ResultCode" -> ResultCode
    [] kind = "ExceptionCode" -> ExceptionCode
    [] kind = "BranchMessageType" -> BranchMessageType
    [] kind = "GlobalStatus" -> GlobalStatus
    [] kind = "BranchType" -> BranchType
    [] kind = "BranchStatus" -> BranchStatus

IsEnum(kind) == kind \notin {Bytes, Int64, Int32, Bool, Embedded}

=============================================================================
