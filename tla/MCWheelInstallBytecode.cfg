CONSTANTS
  InitPy = "__init__.py"
  NativeLib = {"x.so"}
  Metadata = {"d.dist-info", "v.dist-info"}
  DistInfo = "d.dist-info"
  SourceOf <- MCSourceOf
  BytecodeOf <- MCBytecodeOf
  SizeOf <- MCSizeOf
  Shebang = {"python"}
  Broken = {"py2"}
  Jobs <- MCJobs
SPECIFICATION Spec
INVARIANTS
  AllPreservingJobsInstall
