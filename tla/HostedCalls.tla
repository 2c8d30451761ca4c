---------------------------- MODULE HostedCalls -----------------------------
(***************************************************************************)
(* The ownership contract between the Roc application and the host.       *)
(*                                                                         *)
(* roc_platform_abi.rs declares 60 hosted functions: each owns the refer- *)
(* ences its arguments hold, releases each exactly once before it returns *)
(* (unless it moves them), and returns one owned result.  In the other    *)
(* direction the host owns what the application's entrypoints return.     *)
(* Each definition below is the sequence of ownership effects of one of   *)
(* those functions on each way through its body, error returns included;  *)
(* what the function does besides (files, sockets, SQLite) only decides   *)
(* which way is taken and is left open.                                   *)
(***************************************************************************)
EXTENDS RocMemory

CONSTANT Exclusive  \* functions considered only with arguments nobody else holds

VARIABLE call           \* the function being called

vars == <<call, memoryVars>>

\* A function: the shape of its arguments and the ways through its body.
Hosted(args, ways) == [args |-> args, ways |-> ways]
\* One way for each of the given outcomes of the result.
Outcomes(effects, result, outcomes) ==
    {effects \o Return(Under(result, tags)) : tags \in outcomes}
OkOrErr == {<<"Ok">>, <<"Err">>}

-----------------------------------------------------------------------------
(* Conversions shared by the functions *)

\* Copies the native path and releases both encodings, valid or not.
path_buf_from_raw_path(at) ==
    Borrow(at \o <<"unix_bytes">>)
        \o Shallow(at \o <<"unix_bytes">>) \o Shallow(at \o <<"windows_u16s">>)

\* Consumes a native string whatever its tag.
os_string_from_raw(at) == Borrow(at) \o Release(at)

\* Copies without consuming: the container's recursive decref decides.
os_string_from_raw_borrowed(at) == Borrow(at)

\* Consumes the one reference to a resource handle.
release_resource_handle(at) == Release(at)

\* A function of one path and nothing else.
PathFunction(args, result) ==
    Hosted(args, Outcomes(path_buf_from_raw_path(<<>>), result, OkOrErr))
\* A function of one string or list argument that is read and then released.
ReadThenRelease(args, result) ==
    Hosted(args, Outcomes(Borrow(<<"arg0">>) \o Release(<<"arg0">>), result, OkOrErr))
\* A function of one handle, released after the operation.
HandleFunction(args, result) ==
    Hosted(args, Outcomes(Borrow(<<"arg0">>) \o release_resource_handle(<<"arg0">>), result, OkOrErr))

-----------------------------------------------------------------------------
(* Commands *)

copy_native_list(at) == Borrow(at)
copy_environment(at) == Borrow(at)

cmd_to_std ==
    os_string_from_raw_borrowed(<<"arg0", "program">>)
        \o copy_native_list(<<"arg0", "args">>)
        \o copy_environment(<<"arg0", "envs">>)
        \o os_string_from_raw_borrowed(<<"arg1">>)
        \o Release(<<"arg0">>) \o Release(<<"arg1">>)

hosted_cmd_host_exec_exit_code ==
    Hosted(HostCmdExecExitCodeArgs,
           Outcomes(cmd_to_std, HostCmdExecExitCodeResult,
                    {<<"Ok">>, <<"Err", "FailedToGetExitCode">>,
                     <<"Err", "Saturated">>, <<"Err", "Timeout">>}))

hosted_cmd_host_exec_output ==
    Hosted(HostCmdExecOutputArgs,
           Outcomes(cmd_to_std, HostCmdExecOutputResult,
                    {<<"Ok">>, <<"Err", "FailedToGetExitCode">>, <<"Err", "NonZeroExitCode">>,
                     <<"Err", "Saturated">>, <<"Err", "Timeout">>,
                     <<"Err", "StdoutTooLarge">>, <<"Err", "StderrTooLarge">>}))

-----------------------------------------------------------------------------
(* Directories, paths, environment, standard streams, time *)

hosted_dir_create == PathFunction(HostDirCreateArgs, HostDirCreateResult)
hosted_dir_create_all == PathFunction(HostDirCreateAllArgs, HostDirCreateResult)
hosted_dir_delete_all == PathFunction(HostDirDeleteAllArgs, HostDirCreateResult)
hosted_dir_delete_empty == PathFunction(HostDirDeleteEmptyArgs, HostDirCreateResult)
hosted_dir_list == PathFunction(HostDirListArgs, HostDirListResult)
hosted_path_type == PathFunction(HostPathTypeArgs, HostPathTypeResult)

\* The functions of the environment take an unused string.
hosted_env_is_windows ==
    Hosted(HostEnvIsWindowsArgs, Outcomes(Release(<<"arg0">>), Plain, {<<>>}))
hosted_env_cwd_unix ==
    Hosted(HostEnvCwdUnixArgs, Outcomes(Release(<<"arg0">>), HostEnvCwdUnixResult, OkOrErr))
hosted_env_cwd_windows ==
    Hosted(HostEnvCwdWindowsArgs,
           Outcomes(Release(<<"arg0">>), HostEnvCwdWindowsResult, OkOrErr))
hosted_env_exe_path_unix ==
    Hosted(HostEnvExePathUnixArgs, Outcomes(Release(<<"arg0">>), HostEnvCwdUnixResult, OkOrErr))
hosted_env_exe_path_windows ==
    Hosted(HostEnvExePathWindowsArgs,
           Outcomes(Release(<<"arg0">>), HostEnvCwdWindowsResult, OkOrErr))
hosted_env_temp_dir ==
    Hosted(HostEnvTempDirArgs, Outcomes(Release(<<"arg0">>), RawPath, {<<>>}))
hosted_env_current_arch_os ==
    Hosted(HostEnvCurrentArchOsArgs,
           Outcomes(Release(<<"arg0">>), HostEnvCurrentArchOs, {<<>>}))
hosted_env_dict == Hosted(Plain, Outcomes(<<>>, List(HostEnvDict), {<<>>}))
hosted_env_var ==
    Hosted(HostEnvVarArgs,
           Outcomes(os_string_from_raw(<<"arg0">>), HostEnvVarResult,
                    {<<"Ok">>, <<"Err", "EnvErr">>, <<"Err", "VarNotFound">>}))

hosted_stdout_line == ReadThenRelease(HostStdoutLineArgs, HostStdoutLineResult)
hosted_stdout_write == ReadThenRelease(HostStdoutWriteArgs, HostStdoutLineResult)
hosted_stdout_write_bytes == ReadThenRelease(HostStdoutWriteBytesArgs, HostStdoutLineResult)
hosted_stderr_line == ReadThenRelease(HostStderrLineArgs, HostStderrLineResult)
hosted_stderr_write == ReadThenRelease(HostStderrWriteArgs, HostStderrLineResult)
hosted_stderr_write_bytes == ReadThenRelease(HostStderrWriteBytesArgs, HostStderrLineResult)

hosted_unix_time_now == Hosted(Plain, Outcomes(<<>>, Plain, {<<>>}))
hosted_sleep_millis == Hosted(HostSleepMillisArgs, Outcomes(<<>>, Plain, {<<>>}))

-----------------------------------------------------------------------------
(* Files *)

hosted_file_delete == PathFunction(HostFileDeleteArgs, HostFileDeleteResult)
hosted_file_read_bytes == PathFunction(HostFileReadBytesArgs, HostFileReadBytesResult)
hosted_file_read_utf8 == PathFunction(HostFileReadUtf8Args, HostFileReadUtf8Result)
hosted_file_size_in_bytes == PathFunction(HostFileSizeInBytesArgs, HostFileSizeInBytesResult)
hosted_file_is_executable == PathFunction(HostFileIsExecutableArgs, HostFileIsExecutableResult)
hosted_file_is_readable == PathFunction(HostFileIsReadableArgs, HostFileIsExecutableResult)
hosted_file_is_writable == PathFunction(HostFileIsWritableArgs, HostFileIsExecutableResult)
hosted_file_time_accessed == PathFunction(HostFileTimeAccessedArgs, HostFileTimeAccessedResult)
hosted_file_time_created == PathFunction(HostFileTimeCreatedArgs, HostFileTimeAccessedResult)
hosted_file_time_modified == PathFunction(HostFileTimeModifiedArgs, HostFileTimeAccessedResult)

\* The second path is consumed even when the first is invalid.
hosted_file_hard_link ==
    Hosted(HostFileHardLinkArgs,
           Outcomes(path_buf_from_raw_path(<<"arg0">>) \o path_buf_from_raw_path(<<"arg1">>),
                    HostFileDeleteResult, OkOrErr))
hosted_file_rename ==
    Hosted(HostFileRenameArgs,
           Outcomes(path_buf_from_raw_path(<<"arg0">>) \o path_buf_from_raw_path(<<"arg1">>),
                    HostFileDeleteResult, OkOrErr))

hosted_file_open_reader ==
    Hosted(HostFileOpenReaderArgs,
           Outcomes(path_buf_from_raw_path(<<"arg0">>), HostFileOpenReaderResult, OkOrErr))
hosted_file_read_line == HandleFunction(HostFileReadLineArgs, HostFileReadBytesResult)

\* An invalid path releases the content unread.
hosted_file_write_bytes ==
    Hosted(HostFileWriteBytesArgs,
           LET path == path_buf_from_raw_path(<<"arg0">>)
           IN  Outcomes(path \o Shallow(<<"arg1">>), HostFileDeleteResult, {<<"Err">>})
                   \union Outcomes(path \o Borrow(<<"arg1">>) \o Shallow(<<"arg1">>),
                                   HostFileDeleteResult, OkOrErr))
hosted_file_write_utf8 ==
    Hosted(HostFileWriteUtf8Args,
           LET path == path_buf_from_raw_path(<<"arg0">>)
           IN  Outcomes(path \o Release(<<"arg1">>), HostFileDeleteResult, {<<"Err">>})
                   \union Outcomes(path \o Borrow(<<"arg1">>) \o Release(<<"arg1">>),
                                   HostFileDeleteResult, OkOrErr))

-----------------------------------------------------------------------------
(* Request bodies, readiness, TCP, outbound HTTP *)

\* OwnedBodyArgument: read through the handle, released when it is dropped.
hosted_request_body_read == HandleFunction(HostRequestBodyReadArgs, HostRequestBodyReadResult)
hosted_request_body_read_all ==
    HandleFunction(HostRequestBodyReadAllArgs, HostRequestBodyReadAllResult)
hosted_request_body_write_file ==
    Hosted(HostRequestBodyWriteFileArgs,
           Outcomes(Borrow(<<"arg2">>) \o Borrow(<<"arg3">>)
                        \o Release(<<"arg2">>) \o Release(<<"arg3">>)
                        \o Borrow(<<"arg0">>) \o Release(<<"arg0">>),
                    HostRequestBodyWriteFileResult, OkOrErr))

hosted_readiness_create ==
    Hosted(HostReadinessCreateArgs, Outcomes(<<>>, HostReadinessCreateResult, OkOrErr))
hosted_readiness_set ==
    Hosted(HostReadinessSetArgs,
           Outcomes(Borrow(<<"arg0">>) \o release_resource_handle(<<"arg0">>), Plain, {<<>>}))

hosted_tcp_connect == ReadThenRelease(HostTcpConnectArgs, HostTcpConnectResult)
hosted_tcp_read_up_to == HandleFunction(HostTcpReadUpToArgs, HostTcpReadExactlyResult)
hosted_tcp_read_exactly == HandleFunction(HostTcpReadExactlyArgs, HostTcpReadExactlyResult)
hosted_tcp_read_until == HandleFunction(HostTcpReadUntilArgs, HostTcpReadExactlyResult)
hosted_tcp_write ==
    Hosted(HostTcpWriteArgs,
           Outcomes(Borrow(<<"arg0">>) \o Borrow(<<"arg1">>)
                        \o Shallow(<<"arg1">>) \o release_resource_handle(<<"arg0">>),
                    HostTcpWriteResult, OkOrErr))

\* The headers are released one by one, then the list itself.
hosted_http_send_request ==
    Hosted(HostHttpSendRequestArgs,
           Outcomes(Borrow(<<>>) \o Shallow(<<"body">>)
                        \o ReleaseItems(<<"headers">>) \o Shallow(<<"headers">>)
                        \o Release(<<"method_ext">>) \o Release(<<"uri">>),
                    HostHttpSendRequestResult,
                    {<<"Ok">>, <<"Err", "InvalidRequest">>, <<"Err", "Transport">>}))

-----------------------------------------------------------------------------
(* SQLite *)

sqlite_path_from_raw(at) == Borrow(at \o <<"unix_bytes">>) \o Release(at)

\* The bindings are released with the list only by its last owner.
release_bindings(at) == ReleaseItemsIfUnique(at) \o Shallow(at)

\* A statement text is copied and released before the handle is looked up.
PrepareFunction(args) ==
    Hosted(args, Outcomes(Borrow(<<"arg1">>) \o Release(<<"arg1">>)
                              \o Borrow(<<"arg0">>) \o release_resource_handle(<<"arg0">>),
                          HostSqlitePrepareResult, OkOrErr))

hosted_sqlite_open ==
    Hosted(HostSqliteOpenArgs,
           Outcomes(sqlite_path_from_raw(<<"arg0">>), HostSqliteOpenResult, OkOrErr))
hosted_sqlite_prepare == PrepareFunction(HostSqlitePrepareArgs)
hosted_sqlite_txn_prepare == PrepareFunction(HostSqliteTxnPrepareArgs)
hosted_sqlite_columns == HandleFunction(HostSqliteColumnsArgs, HostSqliteColumnsResult)
\* A stale statement or a full table of executions leaves the bindings unread.
hosted_sqlite_start ==
    Hosted(HostSqliteStartArgs,
           LET statement == Borrow(<<"arg0">>) \o release_resource_handle(<<"arg0">>)
           IN  Outcomes(statement \o release_bindings(<<"arg1">>),
                        HostSqliteStartResult, {<<"Err">>})
                   \union Outcomes(statement \o Borrow(<<"arg1">>) \o release_bindings(<<"arg1">>),
                                   HostSqliteStartResult, OkOrErr))
hosted_sqlite_next_row ==
    Hosted(HostSqliteNextRowArgs,
           Outcomes(Borrow(<<"arg0">>) \o release_resource_handle(<<"arg0">>),
                    HostSqliteNextRowResult,
                    {<<"Err">>, <<"Ok", "Done">>, <<"Ok", "Row">>,
                     <<"Ok", "ResultTooLarge">>, <<"Ok", "RowLimitExceeded">>}))
hosted_sqlite_begin == HandleFunction(HostSqliteBeginArgs, HostSqliteBeginResult)
hosted_sqlite_txn_finish == HandleFunction(HostSqliteTxnFinishArgs, HostSqliteTxnFinishResult)

-----------------------------------------------------------------------------
(* What the application's entrypoints return, and the host owns *)

\* The configuration is read and released; the context stays with the host
\* until the shutdown hook takes it.
start_inner ==
    Hosted(InitForHostOk,
           {Borrow(<<"config">>) \o Release(<<"config">>) \o Release(<<"context">>)})

\* outcome_from_roc, for each tag of the outcome.  The response owner keeps
\* every reference until the transport has dropped the body.
response_to_hyper ==
    Hosted(ServerOrdinaryResponse,
           {Borrow(<<"headers">>) \o Borrow(<<"body">>) \o Release(<<>>)})
file_from_roc ==
    Hosted(ServerFileResponse, {Borrow(<<>>) \o Release(<<>>)})
\* An event source is consumed by the next transition, or dropped.
stream_from_roc == Hosted(Callable, {Release(<<>>)})

\* OwnedSseStep: taken apart by its tag, or dropped whole.
sse_step_emit ==
    Hosted(SseStepToHostEmitToHost,
           {Borrow(<<"item">>) \o Release(<<"item">>) \o Release(<<"source">>),
            Release(<<"source">>) \o Release(<<"item">>), Release(<<>>)})
sse_step_wait == Hosted(SseStepToHostWaitToHost, {Release(<<"source">>), Release(<<>>)})
sse_step_error == Hosted(Str, {Borrow(<<>>) \o Release(<<>>), Release(<<>>)})

-----------------------------------------------------------------------------
(* The symbols the host exports, and the entrypoints it calls *)

CommandSymbols ==
    [hosted_cmd_host_exec_exit_code |-> hosted_cmd_host_exec_exit_code,
     hosted_cmd_host_exec_output |-> hosted_cmd_host_exec_output]
DirSymbols ==
    [hosted_dir_create |-> hosted_dir_create,
     hosted_dir_create_all |-> hosted_dir_create_all,
     hosted_dir_delete_all |-> hosted_dir_delete_all,
     hosted_dir_delete_empty |-> hosted_dir_delete_empty,
     hosted_dir_list |-> hosted_dir_list]
EnvSymbols ==
    [hosted_env_is_windows |-> hosted_env_is_windows,
     hosted_env_cwd_unix |-> hosted_env_cwd_unix,
     hosted_env_cwd_windows |-> hosted_env_cwd_windows,
     hosted_env_exe_path_unix |-> hosted_env_exe_path_unix,
     hosted_env_exe_path_windows |-> hosted_env_exe_path_windows,
     hosted_env_temp_dir |-> hosted_env_temp_dir,
     hosted_env_current_arch_os |-> hosted_env_current_arch_os,
     hosted_env_dict |-> hosted_env_dict,
     hosted_env_var |-> hosted_env_var]
FileSymbols ==
    [hosted_file_delete |-> hosted_file_delete,
     hosted_file_read_bytes |-> hosted_file_read_bytes,
     hosted_file_read_utf8 |-> hosted_file_read_utf8,
     hosted_file_size_in_bytes |-> hosted_file_size_in_bytes,
     hosted_file_is_executable |-> hosted_file_is_executable,
     hosted_file_is_readable |-> hosted_file_is_readable,
     hosted_file_is_writable |-> hosted_file_is_writable,
     hosted_file_time_accessed |-> hosted_file_time_accessed,
     hosted_file_time_created |-> hosted_file_time_created,
     hosted_file_time_modified |-> hosted_file_time_modified,
     hosted_file_hard_link |-> hosted_file_hard_link,
     hosted_file_rename |-> hosted_file_rename,
     hosted_file_open_reader |-> hosted_file_open_reader,
     hosted_file_read_line |-> hosted_file_read_line,
     hosted_file_write_bytes |-> hosted_file_write_bytes,
     hosted_file_write_utf8 |-> hosted_file_write_utf8]
RequestSymbols ==
    [hosted_path_type |-> hosted_path_type,
     hosted_sleep_millis |-> hosted_sleep_millis,
     hosted_request_body_read |-> hosted_request_body_read,
     hosted_request_body_read_all |-> hosted_request_body_read_all,
     hosted_request_body_write_file |-> hosted_request_body_write_file,
     hosted_readiness_create |-> hosted_readiness_create,
     hosted_readiness_set |-> hosted_readiness_set,
     hosted_http_send_request |-> hosted_http_send_request]
SqliteSymbols ==
    [hosted_sqlite_open |-> hosted_sqlite_open,
     hosted_sqlite_prepare |-> hosted_sqlite_prepare,
     hosted_sqlite_txn_prepare |-> hosted_sqlite_txn_prepare,
     hosted_sqlite_columns |-> hosted_sqlite_columns,
     hosted_sqlite_start |-> hosted_sqlite_start,
     hosted_sqlite_next_row |-> hosted_sqlite_next_row,
     hosted_sqlite_begin |-> hosted_sqlite_begin,
     hosted_sqlite_txn_finish |-> hosted_sqlite_txn_finish]
StdioSymbols ==
    [hosted_stdout_line |-> hosted_stdout_line,
     hosted_stdout_write |-> hosted_stdout_write,
     hosted_stdout_write_bytes |-> hosted_stdout_write_bytes,
     hosted_stderr_line |-> hosted_stderr_line,
     hosted_stderr_write |-> hosted_stderr_write,
     hosted_stderr_write_bytes |-> hosted_stderr_write_bytes]
TcpSymbols ==
    [hosted_unix_time_now |-> hosted_unix_time_now,
     hosted_tcp_connect |-> hosted_tcp_connect,
     hosted_tcp_read_up_to |-> hosted_tcp_read_up_to,
     hosted_tcp_read_exactly |-> hosted_tcp_read_exactly,
     hosted_tcp_read_until |-> hosted_tcp_read_until,
     hosted_tcp_write |-> hosted_tcp_write]
EntrypointResults ==
    [start_inner |-> start_inner,
     response_to_hyper |-> response_to_hyper,
     file_from_roc |-> file_from_roc,
     stream_from_roc |-> stream_from_roc,
     sse_step_emit |-> sse_step_emit,
     sse_step_wait |-> sse_step_wait,
     sse_step_error |-> sse_step_error]

HostFunctions ==
    CommandSymbols @@ DirSymbols @@ EnvSymbols @@ FileSymbols @@ RequestSymbols
        @@ SqliteSymbols @@ StdioSymbols @@ TcpSymbols @@ EntrypointResults

-----------------------------------------------------------------------------
(* One call, from the moment the host owns the arguments *)

Init ==
    /\ call \in DOMAIN HostFunctions
    /\ \E way \in HostFunctions[call].ways :
          MemoryInit(HostFunctions[call].args, way, call \in Exclusive)

Next == (\E o \in Owners : MemoryStep(o)) /\ UNCHANGED call

Spec == Init /\ [][Next]_vars

-----------------------------------------------------------------------------
(* Properties *)

\* The shape of the state.
TypeOK == call \in DOMAIN HostFunctions /\ MemoryTypeOK

\* No allocation is read, released or torn down after it was freed: not by the
\* host on any way through a hosted function, and not by the application,
\* which may hold a reference of its own to any part of what it passed and use
\* it at any time ("Releasing the elements unconditionally double-frees them
\* whenever the Roc caller still holds the container").
NoUseAfterFree == ~fault

\* Every argument is released: when the host has returned, the application has
\* let go of the result and the other owner is done, no allocation of the call
\* is left, on error returns and for seamless slices as well.
NothingLeaked == (~fault /\ \A o \in Owners : prog[o] = <<>>) => DOMAIN counts = {}
=============================================================================
