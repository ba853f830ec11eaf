\* Programs compiled and run, and the modules written by hand.
SPECIFICATION CompiledSpec
CONSTANTS
    Programs <- MCPrograms
    Inputs <- MCInputs
    HandWritten <- MCHandWritten
    Translations <- HandTranslations
    Bits = 8
    Undef = Undef
PROPERTY BehavesAsMeant
