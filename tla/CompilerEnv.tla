----------------------------- MODULE CompilerEnv -----------------------------
(***************************************************************************)
(* build_helper.py: the tools a build finds in its environment.  The value *)
(* of a variable is a driver and its arguments; a driver is named bare, by *)
(* a path relative to the execroot, with the execroot marker, or absolute. *)
(* Not here: the macOS SDK, PATH and the temporary directories.            *)
(***************************************************************************)
EXTENDS Sequences

CONSTANTS
  OnPath,      \* the names shutil.which finds
  CxxPeer      \* the C++ name of each C driver name that has one
               \* executable in the same directory

Value(at, base, args) == [at |-> at, base |-> base, args |-> args]

\* value.replace(execroot_marker, execroot)
unmark(v) == IF v.at = "marker" THEN [v EXCEPT !.at = "absolute"] ELSE v

_absolutize_pathWrong(v) == v  \* left for the build to resolve, in its own directory
_absolutize_path(v) == IF v.at = "execroot" THEN [v EXCEPT !.at = "absolute"] ELSE v

ToolVariables == {"JAVA_HOME", "JAVA", "AR", "LD", "STRIP"}

_absolutize_tool_paths(env) ==
  [k \in DOMAIN env |-> IF k \in ToolVariables THEN _absolutize_path(env[k]) ELSE env[k]]

\* The driver a wrapper execs.
_resolve_compiler_path(env, key, default) ==
  IF key \notin DOMAIN env THEN Value("bare", default, << >>)
  ELSE LET driver == [env[key] EXCEPT !.args = << >>]
       IN IF driver.at = "bare" /\ driver.base \in OnPath
          THEN [driver EXCEPT !.at = "absolute"] ELSE _absolutize_path(driver)

\* The C++ peer of a C driver that Bazel named by its absolute path.
_local_cxx_companion(env, driver) ==
  IF "CXX" \in DOMAIN env /\ env["CXX"].at = "absolute" /\ driver.base \in DOMAIN CxxPeer
  THEN [driver EXCEPT !.base = CxxPeer[driver.base]] ELSE driver

\* What each wrapper execs; mpicc has one only where PATH finds it.
wrapped(env, infer_cxx) ==
  LET cxx == _resolve_compiler_path(env, "CXX", "c++")
  IN [cc |-> _resolve_compiler_path(env, "CC", "cc"),
      cxx |-> IF infer_cxx THEN _local_cxx_companion(env, cxx) ELSE cxx,
      mpicc |-> Value("absolute", "mpicc", << >>)]

wrapper(name, args) == Value("wrapper", name, args)
Overrides == [CC |-> "cc", CXX |-> "cxx", CPP |-> "cc", LDSHARED |-> "cc", LDCXXSHARED |-> "cxx"]

\* The environment of the build and what its wrappers exec.
_compiler_env(environ, infer_cxx) ==
  LET env == _absolutize_tool_paths([k \in DOMAIN environ |-> unmark(environ[k])])
      defaults == [CC |-> wrapper("cc", << >>), CXX |-> wrapper("cxx", << >>),
                   AR |-> Value("bare", "ar", << >>), MPICC |-> wrapper("mpicc", << >>)]
      names == DOMAIN env \cup {k \in DOMAIN defaults : k = "MPICC" => "mpicc" \in OnPath}
      all == [k \in names |-> IF k \in DOMAIN env THEN env[k] ELSE defaults[k]]
  IN [env |-> [k \in DOMAIN all |-> IF k \in DOMAIN Overrides
                                    THEN wrapper(Overrides[k], all[k].args) ELSE all[k]],
      execs |-> wrapped(env, infer_cxx)]

-----------------------------------------------------------------------------
\* What runs when the build, in its own directory, starts the tool of key.
Runs(built, key) ==
  IF built.env[key].at = "wrapper" THEN built.execs[built.env[key].base] ELSE built.env[key]
=============================================================================
