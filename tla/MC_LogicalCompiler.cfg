\* Call trees of up to two levels and four instructions per program.
CONSTANTS
    NoValue = NoValue
    Positions = {1, 3}
    Modules <- SmallModules
SPECIFICATION CompilerSpec
INVARIANTS CompilerTypeOK ExpansionIsInlining CompiledIsFaithful
PROPERTIES CompilationEnds
