------------------------------ MODULE AbiTypes ------------------------------
(***************************************************************************)
(* The types that cross the boundary between the Roc application and the  *)
(* host, as roc_platform_abi.rs lays them out, seen from the side of      *)
(* ownership: which reference counted allocations a value of the type     *)
(* holds, and which of them hold further ones.                            *)
(*                                                                         *)
(* Numbers, booleans, tags without a payload and C padding own nothing    *)
(* and are all Plain; the fields and tags that are Plain are left out of  *)
(* a Struct and listed as a set of names in a Union.  The generated names *)
(* of anonymous records and tag unions are replaced by the aliases that   *)
(* abi/mod.rs and the generated file give them.                           *)
(***************************************************************************)

\* The shapes.  Str, Bytes (a list of plain items), Box and Callable are one
\* counted allocation each; a List is one allocation that owns its elements.
Plain == [kind |-> "plain"]
Str == [kind |-> "counted"]
Bytes == [kind |-> "counted"]
Box == [kind |-> "counted"]
Callable == [kind |-> "counted"]
List(item) == [kind |-> "list", item |-> item]
Struct(fields) == [kind |-> "struct", fields |-> fields]
Union(payloads, plainTags) ==
    [kind |-> "union", payloads |-> payloads, plainTags |-> plainTags]

-----------------------------------------------------------------------------
(* Records *)

RawOsStr == Union([UnixBytes |-> Bytes, Utf8 |-> Str, WindowsU16s |-> Bytes], {})
HostEnvDict == Struct([name |-> RawOsStr, value |-> RawOsStr])
HostCmdExecExitCodeArg0 == Struct([args |-> List(RawOsStr), envs |-> List(HostEnvDict),
                                   program |-> RawOsStr])
HostCmdExecOutputErrNonZeroExitCode == Struct([
    stderr_bytes |-> Bytes, stdout_bytes |-> Bytes])
BodyTooLarge == Plain
HostCmdExecOutputOk == Struct([stderr_bytes |-> Bytes, stdout_bytes |-> Bytes])
RawPath == Struct([unix_bytes |-> Bytes, windows_u16s |-> Bytes])
HostEnvCurrentArchOs == Struct([arch |-> Str, os |-> Str])
HostHttpSendRequestErrTransportConnectFailed == Struct([
    detail |-> Str, host |-> Str])
HostHttpSendRequestErrTransportDnsFailed == Struct([
    detail |-> Str, host |-> Str])
ServerHeader == Struct([name |-> Str, value |-> Str])
HostHttpSendRequestOk == Struct([body |-> Bytes, headers |-> List(ServerHeader)])
HostHttpSendRequestArg0 == Struct([body |-> Bytes, headers |-> List(ServerHeader),
                                   method_ext |-> Str, uri |-> Str])
BodyWriteDigest == Union([Sha256Digest |-> Bytes], {"NotComputed"})
BodyWriteOk == Struct([digest |-> BodyWriteDigest])
PathInfo == Plain
SqliteError == Struct([message |-> Str])
SqliteValue == Union([Bytes |-> Bytes, String |-> Str], {"Integer", "Null", "Real"})
SqliteBindings == Struct([value |-> SqliteValue, name |-> Str])
SqliteHostNextRow == Struct([values |-> List(SqliteValue)])
ServerFileRoot == Struct([id |-> Str, path_unix_bytes |-> Bytes, path_utf8 |-> Str,
                          path_windows_u16s |-> Bytes])
ServerNativeFileRoute == Struct([at |-> Str, relative |-> Str, root_id |-> Str])
ServerReadinessRoute == Struct([at |-> Str, readiness |-> Box])
ServerWritableRoot == Struct([id |-> Str, path_unix_bytes |-> Bytes, path_utf8 |-> Str,
                              path_windows_u16s |-> Bytes])
ServerConfig == Struct([file_roots |-> List(ServerFileRoot), host |-> Str,
                        liveness_routes |-> List(Str), metrics_path |-> Str,
                        native_file_routes |-> List(ServerNativeFileRoute),
                        readiness_routes |-> List(ServerReadinessRoute),
                        writable_roots |-> List(ServerWritableRoot)])
InitForHostOk == Struct([config |-> ServerConfig, context |-> Box])
ServerFileResponse == Struct([file_download_name |-> Str, file_relative |-> Str,
                              file_root_id |-> Str])
ServerOrdinaryResponse == Struct([body |-> Bytes, headers |-> List(ServerHeader)])
SseStepToHostEmitToHost == Struct([item |-> Bytes, source |-> Callable])
SseStepToHostWaitToHost == Struct([source |-> Callable])
ServerRequest == Struct([authority_host |-> Str, body_handle |-> Box,
                         headers |-> List(ServerHeader), method_ext |-> Str,
                         target_authority_host |-> Str, target_path |-> Str,
                         target_query |-> Str])
ServerShutdownReason == Struct([detail |-> Str])

-----------------------------------------------------------------------------
(* Tag unions *)

HostIOErr == Union([Other |-> Str],
        {"AlreadyExists", "BrokenPipe", "Interrupted", "NotFound", "OutOfMemory", "PermissionDenied",
         "Unsupported"})
HostCmdExecExitCodeErr == Union([FailedToGetExitCode |-> HostIOErr], {"Saturated", "Timeout"})
HostCmdExecExitCodeResult == Union([Err |-> HostCmdExecExitCodeErr], {"Ok"})
InheritOrSet == Union([Set |-> RawOsStr], {"Inherit"})
IOErr == Union([Other |-> Str],
        {"AlreadyExists", "BrokenPipe", "Interrupted", "NotFound", "OutOfMemory", "PermissionDenied",
         "Unsupported"})
HostCmdExecOutputErr == Union([FailedToGetExitCode |-> IOErr,
                               NonZeroExitCode |-> HostCmdExecOutputErrNonZeroExitCode],
        {"Saturated", "StderrTooLarge", "StdoutTooLarge", "Timeout"})
HostCmdExecOutputResult == Union([Err |-> HostCmdExecOutputErr, Ok |-> HostCmdExecOutputOk], {})
HostDirCreateResult == Union([Err |-> IOErr], {"Ok"})
HostDirListResult == Union([Err |-> IOErr, Ok |-> List(RawPath)], {})
HostEnvVarErr == Union([EnvErr |-> IOErr, VarNotFound |-> RawOsStr], {})
HostEnvVarResult == Union([Err |-> HostEnvVarErr, Ok |-> RawOsStr], {})
HostEnvCwdUnixResult == Union([Err |-> IOErr, Ok |-> Bytes], {})
HostEnvCwdWindowsResult == Union([Err |-> IOErr, Ok |-> Bytes], {})
HostFileReadBytesResult == Union([Err |-> IOErr, Ok |-> Bytes], {})
HostFileDeleteResult == Union([Err |-> IOErr], {"Ok"})
HostFileReadUtf8Result == Union([Err |-> IOErr, Ok |-> Str], {})
HostFileOpenReaderResult == Union([Err |-> IOErr, Ok |-> Box], {})
HostFileSizeInBytesResult == Union([Err |-> IOErr], {"Ok"})
HostFileIsExecutableResult == Union([Err |-> IOErr], {"Ok"})
HostFileTimeAccessedResult == Union([Err |-> IOErr], {"Ok"})
HostHttpSendRequestErrTransport == Union([
    ConnectFailed |-> HostHttpSendRequestErrTransportConnectFailed,
    DnsFailed |-> HostHttpSendRequestErrTransportDnsFailed, ExchangeFailed |-> Str,
    InvalidResponse |-> Str, Other |-> Str, ResponseBodyFailed |-> Str,
    TlsFailed |-> HostHttpSendRequestErrTransportDnsFailed],
        {"Cancelled", "ConnectionClosed", "ResponseTooLarge", "Saturated", "Timeout"})
HostHttpSendRequestErr == Union([InvalidRequest |-> Str,
                                 Transport |-> HostHttpSendRequestErrTransport], {})
HostHttpSendRequestResult == Union([Err |-> HostHttpSendRequestErr, Ok |-> HostHttpSendRequestOk],
        {})
BodyReadError == Union([InvalidBody |-> Str],
        {"Cancelled", "ClientDisconnected", "ConcurrentRead", "RequestFinished", "Stopping", "Timeout",
         "TooLarge"})
BodyReadValue == Union([Chunk |-> Bytes], {"End"})
HostRequestBodyReadResult == Union([Err |-> BodyReadError, Ok |-> BodyReadValue], {})
HostRequestBodyReadAllResult == Union([Err |-> BodyReadError, Ok |-> Bytes], {})
BodyWriteError == Union([CleanupFailed |-> Str, Filesystem |-> Str, InvalidBody |-> Str,
                         PublishFailed |-> Str],
        {"Cancelled", "ClientDisconnected", "ConcurrentRead", "DestinationExists", "InvalidRelativeFile",
         "InvalidRoot", "PermissionDenied", "RequestFinished", "Saturated", "Stopping", "StorageFull",
         "Timeout", "TooLarge"})
HostRequestBodyWriteFileResult == Union([Err |-> BodyWriteError, Ok |-> BodyWriteOk], {})
HostReadinessCreateResult == Union([Ok |-> Box], {"Err"})
HostReadinessSetResult == Plain
HostPathTypeResult == Union([Err |-> IOErr], {"Ok"})
HostSqliteOpenResult == Union([Err |-> SqliteError, Ok |-> Box], {})
HostSqlitePrepareResult == Union([Err |-> SqliteError, Ok |-> Box], {})
HostSqliteStartResult == Union([Err |-> SqliteError, Ok |-> Box], {})
HostSqliteColumnsResult == Union([Err |-> SqliteError, Ok |-> List(Str)], {})
SqliteHostNextRowState == Union([Row |-> SqliteHostNextRow],
        {"Done", "ResultTooLarge", "RowLimitExceeded"})
HostSqliteNextRowResult == Union([Err |-> SqliteError, Ok |-> SqliteHostNextRowState], {})
HostSqliteBeginResult == Union([Err |-> SqliteError, Ok |-> Box], {})
HostSqliteTxnFinishResult == Union([Err |-> SqliteError], {"Ok"})
HostStdoutLineResult == Union([Err |-> IOErr], {"Ok"})
HostStderrLineResult == Union([Err |-> IOErr], {"Ok"})
HostTcpConnectResult == Union([Err |-> Str, Ok |-> Box], {})
HostTcpReadExactlyResult == Union([Err |-> Str, Ok |-> Bytes], {})
HostTcpWriteResult == Union([Err |-> Str], {"Ok"})
InitForHostResult == Union([Ok |-> InitForHostOk], {"Err"})
InternalServerOutcomeToHost == Union([File |-> ServerFileResponse,
                                      Ordinary |-> ServerOrdinaryResponse, Stream |-> Callable],
        {})
SseStepToHost == Union([EmitToHost |-> SseStepToHostEmitToHost, ErrorToHost |-> Str,
                        WaitToHost |-> SseStepToHostWaitToHost], {"EndToHost"})
ShutdownForHostResult == Plain

-----------------------------------------------------------------------------
(* Argument records of the hosted symbols *)

HostCmdExecExitCodeArgs == Struct([arg0 |-> HostCmdExecExitCodeArg0, arg1 |-> InheritOrSet])
HostCmdExecOutputArgs == Struct([arg0 |-> HostCmdExecExitCodeArg0, arg1 |-> InheritOrSet])
HostDirCreateArgs == RawPath
HostDirCreateAllArgs == RawPath
HostDirDeleteAllArgs == RawPath
HostDirDeleteEmptyArgs == RawPath
HostDirListArgs == RawPath
HostEnvCurrentArchOsArgs == Struct([arg0 |-> Str])
HostEnvCwdUnixArgs == Struct([arg0 |-> Str])
HostEnvCwdWindowsArgs == Struct([arg0 |-> Str])
HostEnvExePathUnixArgs == Struct([arg0 |-> Str])
HostEnvExePathWindowsArgs == Struct([arg0 |-> Str])
HostEnvIsWindowsArgs == Struct([arg0 |-> Str])
HostEnvTempDirArgs == Struct([arg0 |-> Str])
HostEnvVarArgs == Struct([arg0 |-> RawOsStr])
HostFileDeleteArgs == RawPath
HostFileHardLinkArgs == Struct([arg0 |-> RawPath, arg1 |-> RawPath])
HostFileIsExecutableArgs == RawPath
HostFileIsReadableArgs == RawPath
HostFileIsWritableArgs == RawPath
HostFileOpenReaderArgs == Struct([arg0 |-> RawPath])
HostFileReadBytesArgs == RawPath
HostFileReadLineArgs == Struct([arg0 |-> Box])
HostFileReadUtf8Args == RawPath
HostFileRenameArgs == Struct([arg0 |-> RawPath, arg1 |-> RawPath])
HostFileSizeInBytesArgs == RawPath
HostFileTimeAccessedArgs == RawPath
HostFileTimeCreatedArgs == RawPath
HostFileTimeModifiedArgs == RawPath
HostFileWriteBytesArgs == Struct([arg0 |-> RawPath, arg1 |-> Bytes])
HostFileWriteUtf8Args == Struct([arg0 |-> RawPath, arg1 |-> Str])
HostHttpSendRequestArgs == Struct([body |-> Bytes, headers |-> List(ServerHeader),
                                   method_ext |-> Str, uri |-> Str])
HostPathTypeArgs == RawPath
HostReadinessCreateArgs == Plain
HostReadinessSetArgs == Struct([arg0 |-> Box])
HostRequestBodyReadArgs == Struct([arg0 |-> Box])
HostRequestBodyReadAllArgs == Struct([arg0 |-> Box])
HostRequestBodyWriteFileArgs == Struct([arg0 |-> Box, arg2 |-> Str, arg3 |-> Str])
HostSleepMillisArgs == Plain
HostSqliteBeginArgs == Struct([arg0 |-> Box])
HostSqliteColumnsArgs == Struct([arg0 |-> Box])
HostSqliteNextRowArgs == Struct([arg0 |-> Box])
HostSqliteOpenArgs == Struct([arg0 |-> RawPath])
HostSqlitePrepareArgs == Struct([arg0 |-> Box, arg1 |-> Str])
HostSqliteStartArgs == Struct([arg0 |-> Box, arg1 |-> List(SqliteBindings)])
HostSqliteTxnFinishArgs == Struct([arg0 |-> Box])
HostSqliteTxnPrepareArgs == Struct([arg0 |-> Box, arg1 |-> Str])
HostStderrLineArgs == Struct([arg0 |-> Str])
HostStderrWriteArgs == Struct([arg0 |-> Str])
HostStderrWriteBytesArgs == Struct([arg0 |-> Bytes])
HostStdoutLineArgs == Struct([arg0 |-> Str])
HostStdoutWriteArgs == Struct([arg0 |-> Str])
HostStdoutWriteBytesArgs == Struct([arg0 |-> Bytes])
HostTcpConnectArgs == Struct([arg0 |-> Str])
HostTcpReadExactlyArgs == Struct([arg0 |-> Box])
HostTcpReadUntilArgs == Struct([arg0 |-> Box])
HostTcpReadUpToArgs == Struct([arg0 |-> Box])
HostTcpWriteArgs == Struct([arg0 |-> Box, arg1 |-> Bytes])
=============================================================================
