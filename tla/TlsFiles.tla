------------------------------ MODULE TlsFiles ------------------------------
(***************************************************************************)
(* The TLS files of utils/cluster_manager.py, shared by every cluster      *)
(* manager of the host: one manager decides whether to generate them and   *)
(* generates them, while another one may do the same.  ClusterManager      *)
(* extends this module: its start begins here when TLS is asked for.       *)
(***************************************************************************)
EXTENDS Naturals, Sequences

VARIABLES
  tlsFolder,  \* TLS_FOLDER exists
  tlsFiles,   \* the files of WaitOrder that exist
  tlsPc,      \* "off", "should", "wait", "generate", "use" or "raised"
  tlsIndex,   \* the position in WaitOrder or GenerateOrder
  rival,      \* another manager is generating the files
  waitedOut   \* history: a file was not there, or too old, after its wait

tlsVars == <<tlsFolder, tlsFiles, tlsPc, tlsIndex, rival, waitedOut>>

(* Mutant: the key is looked for first. *)
WaitOrderKeyFirst == <<"redis_key", "ca_crt", "redis_crt">>

(* files_list: the order in which should_generate_new_tls_certs looks. *)
WaitOrder == <<"ca_crt", "redis_key", "redis_crt">>

(* The order in which generate_tls_certs writes the same files.  ca.key,
   ca.txt and openssl.cnf are its own and nobody waits for them. *)
GenerateOrder == <<"redis_key", "ca_crt", "redis_crt">>

TlsFileNames == {WaitOrder[i] : i \in 1..3}
GeneratedUpTo(n) == {GenerateOrder[i] : i \in 1..n}

TlsTypeOK ==
  /\ tlsFolder \in BOOLEAN /\ tlsFiles \subseteq TlsFileNames
  /\ tlsPc \in {"off", "should", "wait", "generate", "use", "raised"}
  /\ tlsIndex \in 1..3 /\ rival \in BOOLEAN /\ waitedOut \in BOOLEAN

TlsInit ==
  /\ tlsFolder = FALSE /\ tlsFiles = {} /\ tlsPc = "off" /\ tlsIndex = 1
  /\ rival = FALSE /\ waitedOut = FALSE

-----------------------------------------------------------------------------
(* mkdir(exist_ok=False) succeeds: this manager generates. *)
TlsFolderCreated ==
  /\ tlsPc = "should" /\ ~tlsFolder
  /\ tlsFolder' = TRUE /\ tlsPc' = "generate" /\ tlsIndex' = 1
  /\ UNCHANGED <<tlsFiles, rival, waitedOut>>

(* FileExistsError: look at the files one after the other. *)
TlsFolderExists ==
  /\ tlsPc = "should" /\ tlsFolder
  /\ tlsPc' = "wait" /\ tlsIndex' = 1
  /\ UNCHANGED <<tlsFolder, tlsFiles, rival, waitedOut>>

(* check_if_tls_cert_exist and check_if_tls_cert_is_valid: the first file that
   is there and young enough ends the function with False. *)
TlsFileFound ==
  /\ tlsPc = "wait" /\ WaitOrder[tlsIndex] \in tlsFiles
  /\ tlsPc' = "use"
  /\ UNCHANGED <<tlsFolder, tlsFiles, tlsIndex, rival, waitedOut>>

(* The file does not appear in time, or is too old: the next one, and after
   the last one the function returns True. *)
TlsFileUnusable ==
  /\ tlsPc = "wait"
  /\ tlsPc' = IF tlsIndex < 3 THEN "wait" ELSE "generate"
  /\ tlsIndex' = IF tlsIndex < 3 THEN tlsIndex + 1 ELSE 1
  /\ waitedOut' = TRUE
  /\ UNCHANGED <<tlsFolder, tlsFiles, rival>>

(* generate_tls_certs: the next openssl command writes its file. *)
TlsGenerates ==
  /\ tlsPc = "generate"
  /\ tlsFiles' = tlsFiles \union {GenerateOrder[tlsIndex]}
  /\ tlsPc' = IF tlsIndex < 3 THEN "generate" ELSE "use"
  /\ tlsIndex' = IF tlsIndex < 3 THEN tlsIndex + 1 ELSE 1
  /\ UNCHANGED <<tlsFolder, rival, waitedOut>>

(* An openssl command fails or takes too long: what was written stays. *)
TlsGenerateRaises ==
  /\ tlsPc = "generate"
  /\ tlsPc' = "raised"
  /\ UNCHANGED <<tlsFolder, tlsFiles, tlsIndex, rival, waitedOut>>

TlsStep ==
  \/ TlsFolderCreated \/ TlsFolderExists \/ TlsFileFound \/ TlsFileUnusable
  \/ TlsGenerates \/ TlsGenerateRaises

(* Another manager runs the same functions: it makes the folder first, writes
   its next file, or gives up half way. *)
RivalCreatesFolder ==
  /\ tlsPc = "should" /\ ~tlsFolder
  /\ tlsFolder' = TRUE /\ rival' = TRUE
  /\ UNCHANGED <<tlsFiles, tlsPc, tlsIndex, waitedOut>>

RivalGenerates ==
  /\ rival /\ tlsPc # "off"
  /\ \E n \in 1..3 :
       /\ GeneratedUpTo(n - 1) \subseteq tlsFiles
       /\ GenerateOrder[n] \notin tlsFiles
       /\ tlsFiles' = tlsFiles \union {GenerateOrder[n]}
       /\ rival' = (n < 3)
  /\ UNCHANGED <<tlsFolder, tlsPc, tlsIndex, waitedOut>>

RivalGivesUp ==
  /\ rival /\ tlsPc # "off"
  /\ rival' = FALSE
  /\ UNCHANGED <<tlsFolder, tlsFiles, tlsPc, tlsIndex, waitedOut>>

RivalStep == RivalCreatesFolder \/ RivalGenerates \/ RivalGivesUp

-----------------------------------------------------------------------------
(* Servers are started with TLS only when their key and the CA's certificate
   exist, although should_generate_new_tls_certs returns False as soon as one
   single file is there: the file it looks for first is written after the key.
   The server's own certificate may still be missing.  Not promised when a
   file was missing or too old for its whole wait. *)
KeyWrittenBeforeUse ==
  tlsPc = "use" /\ ~waitedOut => {"redis_key", "ca_crt"} \subseteq tlsFiles
=============================================================================
