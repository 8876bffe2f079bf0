SPECIFICATION Spec
CONSTANTS
  home = home
  about = about
  ping1 = ping1
  ping2 = ping2
  body = body
  none = none
  Instance <- Renders
  Full <- Pages
  Wasm <- WasmOf
  Compiler <- CompilerOf
  Funcs <- FuncsOf
  Body = body
  None = none
INVARIANTS
  TypeOK
  RightShim
  HeardByOwner
